---- MODULE Spec2Model ----
(***************************************************************************)
(* Model of the Nexus GraphRAG engine (services/llmTools.ts), of its       *)
(* IndexedDB layer (services/db.ts) and of the document and chat handlers  *)
(* of the App component.                                                   *)
(*                                                                         *)
(* Texts are sequences of one-character strings.  Ids are records of one   *)
(* shape, so that a document id, a chunk id (`${doc.id}_chk_${idx}`) and   *)
(* an entity id (`ent_${term}`) can be compared with each other.           *)
(***************************************************************************)
EXTENDS Integers, Sequences, FiniteSets, TLC

----------------------------------------------------------------------------
(* Bounds of the model                                                     *)

\* longest chunk list handed to retrieveContext
MaxChunks == 4
\* longest chunk list handed to rebuildGraphFromChunks
MaxGraphChunks == 2
\* largest topK drawn for retrieveContext
MaxTopK == 2
MaxBadChunks == 3
\* calls of handleAddDocument, handleUpdateDocument and handleSendMessage
\* in one behaviour of the application
MaxOps == 2
\* provider and IndexedDB requests that fail in one behaviour
MaxFaults == 1
MaxSends == 2
MaxDeletes == 1
\* longest RetrievalContext list handed to the graph view
MaxContexts == 2
\* most words of a text handed to tokenize and extractEntities, and most
\* words that follow the six distinct tokens of a longer text
MaxTokWords == 3
MaxExtraWords == 2
\* most words of a text handed to chunkText
MaxWords == 6
\* largest chunkSize and largest chunkOverlap of the settings form, which
\* offers overlaps as large as twice the smallest size
MaxSize == 4
MaxOverlap == 4
\* most iterations of the loop of chunkText the model follows: more than a
\* loop whose start index advances can make over the texts of the model
MaxIters == MaxWords + 3

----------------------------------------------------------------------------
(* Sequence helpers                                                        *)

Range(s) == {s[i] : i \in DOMAIN s}

Min2(a, b) == IF a < b THEN a ELSE b

Max2(a, b) == IF a > b THEN a ELSE b

\* Array.prototype.slice(from, to) with 0-based bounds; a negative bound
\* counts from the end of the array
Slice(s, from, to) ==
    LET lo == IF from < 0 THEN Max2(Len(s) + from, 0) ELSE Min2(from, Len(s))
        hi == IF to < 0 THEN Max2(Len(s) + to, 0) ELSE Min2(to, Len(s))
    IN  IF lo >= hi THEN <<>> ELSE [k \in 1..(hi - lo) |-> s[lo + k]]

\* the elements of s at the indices in idx, in increasing index order
RECURSIVE PickIdx(_, _, _)
PickIdx(s, idx, i) ==
    IF i > Len(s) THEN <<>>
    ELSE (IF i \in idx THEN <<s[i]>> ELSE <<>>) \o PickIdx(s, idx, i + 1)

\* Array.prototype.filter
FilterSeq(s, Keep(_)) == PickIdx(s, {i \in DOMAIN s : Keep(s[i])}, 1)

\* all sequences over S of length 0..n
SeqsUpTo(S, n) == UNION {[1..k -> S] : k \in 0..n}

----------------------------------------------------------------------------
(* 1. Tokenizer (llmTools.ts tokenize)                                     *)

\* characters the regex class \s matches, among the characters of the model
WhiteSpace == {" ", "\n"}

\* the class [.,\/#!$%\^&\*;:{}=\-_`~()?"'<>\[\]\\|] restricted to the model
Punctuation == {".", ",", "-", "_"}

Digits == {"0", "1", "2"}

\* String.prototype.toLowerCase, on the letters of the model
LowerChar(c) == IF c = "A" THEN "a" ELSE IF c = "K" THEN "k" ELSE c

\* PERSIAN_STOP_WORDS.  TLA+ strings are ASCII, so the Persian words are
\* written in transliteration: <<"i","n","n">> stands for a three-letter
\* entry of the list and <<"h","s","t">> for another; the one- and
\* two-letter entries never survive the length filter.
PERSIAN_STOP_WORDS == { <<"i", "n", "n">>, <<"h", "s", "t">>, <<"a", "z">> }

\* .replace(/[...]/g, " ") : every punctuation character becomes a blank
ReplacePunct(text) ==
    [i \in DOMAIN text |-> IF text[i] \in Punctuation THEN " " ELSE text[i]]

\* .replace(/\s+/g, " ") : every run of white space becomes one blank
RECURSIVE CollapseWS(_, _)
CollapseWS(text, inRun) ==
    IF text = <<>> THEN <<>>
    ELSE IF Head(text) \in WhiteSpace
         THEN (IF inRun THEN <<>> ELSE <<" ">>) \o CollapseWS(Tail(text), TRUE)
         ELSE <<Head(text)>> \o CollapseWS(Tail(text), FALSE)

\* String.prototype.split(" ") : the pieces between single blanks, empty
\* pieces included
RECURSIVE SplitBlank(_, _)
SplitBlank(text, cur) ==
    IF text = <<>> THEN <<cur>>
    ELSE IF Head(text) = " "
         THEN <<cur>> \o SplitBlank(Tail(text), <<>>)
         ELSE SplitBlank(Tail(text), Append(cur, Head(text)))

\* Number(t) is truthy: t is a numeric literal whose value is not 0.  The
\* letters of the model form no numeric literal (no e, x, b, o), so only
\* digit strings are numbers; "000" is the number 0, which is falsy.
NumberTruthy(t) ==
    /\ t # <<>>
    /\ \A i \in DOMAIN t : t[i] \in Digits
    /\ \E i \in DOMAIN t : t[i] # "0"

LongEnough(t) == Len(t) > 2
NotNumber(t) == ~NumberTruthy(t)
NotStopWord(t) == t \notin PERSIAN_STOP_WORDS

tokenize(text) ==
    IF text = <<>> THEN <<>>
    ELSE LET lowered == [i \in DOMAIN text |-> LowerChar(text[i])]
             spaced == CollapseWS(ReplacePunct(lowered), FALSE)
             parts == SplitBlank(spaced, <<>>)
         IN  FilterSeq(FilterSeq(FilterSeq(parts, LongEnough), NotNumber),
                       NotStopWord)

----------------------------------------------------------------------------
(* 3. Chunking and entity extraction (llmTools.ts)                         *)

\* String.prototype.split(/\s+/) : the pieces between maximal runs of
\* white space, empty pieces at either end included
RECURSIVE SplitWS(_, _, _)
SplitWS(text, cur, inRun) ==
    IF text = <<>> THEN <<cur>>
    ELSE IF Head(text) \in WhiteSpace
         THEN IF inRun THEN SplitWS(Tail(text), cur, TRUE)
              ELSE <<cur>> \o SplitWS(Tail(text), <<>>, TRUE)
         ELSE SplitWS(Tail(text), Append(cur, Head(text)), FALSE)

\* Array.prototype.join(' ')
RECURSIVE JoinBlank(_)
JoinBlank(ws) ==
    IF ws = <<>> THEN <<>>
    ELSE IF Len(ws) = 1 THEN ws[1]
    ELSE ws[1] \o <<" ">> \o JoinBlank(Tail(ws))

\* every window is pushed, however short
KeepChunk_All(chunk) == TRUE

\* if (chunk.length > 5) chunks.push(chunk)
KeepChunk(chunk) == Len(chunk) > 5

\* the loop stops one window early
LastWindow_Early(i, size, n) == i + size + 1 >= n

\* the loop never breaks and ends by its condition i < words.length
LastWindow_Never(i, size, n) == FALSE

\* if (i + size >= words.length) break
LastWindow(i, size, n) == i + size >= n

\* the windows do not overlap: i += size
NextStart_NoOverlap(i, size, overlap) == i + size

\* i += (size - overlap)
NextStart(i, size, overlap) == i + (size - overlap)

\* words.slice(i, i + size).join(' ')
Window(words, i, size) == JoinBlank(Slice(words, i, i + size))

\* the for loop of chunkText from start index i (0-based), for size > overlap
RECURSIVE ChunkLoop(_, _, _, _)
ChunkLoop(words, i, size, overlap) ==
    IF i >= Len(words) THEN <<>>
    ELSE LET chunk == Window(words, i, size)
             kept == IF KeepChunk(chunk) THEN <<chunk>> ELSE <<>>
         IN  IF LastWindow(i, size, Len(words)) THEN kept
             ELSE kept \o ChunkLoop(words, NextStart(i, size, overlap), size,
                                    overlap)

chunkText(text, size, overlap) ==
    ChunkLoop(SplitWS(text, <<>>, FALSE), 0, size, overlap)

\* the tokens of toks in order of first occurrence (the key order of the Map)
RECURSIVE FirstOccurrences(_, _)
FirstOccurrences(toks, seen) ==
    IF toks = <<>> THEN <<>>
    ELSE IF Head(toks) \in seen THEN FirstOccurrences(Tail(toks), seen)
    ELSE <<Head(toks)>> \o FirstOccurrences(Tail(toks), seen \cup {Head(toks)})

\* every token counted once, whatever its occurrences
Freq_Once(toks, t) == 1

\* freq.get(t) after tokens.forEach
Freq(toks, t) == Cardinality({i \in DOMAIN toks : toks[i] = t})

\* Array.prototype.sort with a comparator that orders a before b exactly
\* when Before(a, b); the sort is stable (ES2019), so elements in no order
\* keep their input order.  Element i lands behind every element that goes
\* before it and behind every earlier element it does not go before.
StableSort(s, Before(_, _)) ==
    LET Pos(i) == 1 + Cardinality({j \in DOMAIN s :
                        \/ Before(s[j], s[i])
                        \/ (j < i /\ ~Before(s[i], s[j]))})
    IN  [p \in DOMAIN s |-> s[CHOOSE i \in DOMAIN s : Pos(i) = p]]

MaxEntities == 5

extractEntities(text) ==
    LET tokens == tokenize(text)
        entries == FirstOccurrences(tokens, {})
        MoreFrequent(a, b) == Freq(tokens, a) > Freq(tokens, b)
    IN  Slice(StableSort(entries, MoreFrequent), 0, MaxEntities)

----------------------------------------------------------------------------
(* Ids, chunks, documents                                                  *)

\* crypto.randomUUID() for a document: the n-th document id
DocId(n) == [k |-> "doc", d |-> n, i |-> 0, t |-> <<>>]
\* `${doc.id}_chk_${idx}`
ChunkId(docId, idx) == [k |-> "chk", d |-> docId.d, i |-> idx, t |-> <<>>]
\* `ent_${ent}`
EntId(ent) == [k |-> "ent", d |-> 0, i |-> 0, t |-> ent]
\* crypto.randomUUID() for a session: the n-th session id; null
SessionId(n) == [k |-> "ses", d |-> n, i |-> 0, t |-> <<>>]
NoSession == [k |-> "null", d |-> 0, i |-> 0, t |-> <<>>]
\* crypto.randomUUID() for a message: the i-th message made for session n
MsgId(n, i) == [k |-> "msg", d |-> n, i |-> i, t |-> <<>>]

\* TextChunk.vector is optional: absent, or an array of numbers
NoVector == [present |-> FALSE, v |-> <<>>]
Vec(v) == [present |-> TRUE, v |-> v]

----------------------------------------------------------------------------
(* 2. Embedding service (llmTools.ts fetchEmbedding)                       *)

Providers == {"openai", "openrouter", "local"}

\* What the provider does with one request:
\*   "vec"         success status, body with the embedding in place
\*   "noEmbedding" success status, body of the expected outer shape without
\*                 the embedding field ({data: [{}]}, or {} for Ollama)
\*   "noData"      success status, body without the outer data array
\*   "status"      a non-success status other than 404
\*   "status404"   status 404
\*   "network"     fetch rejects (unreachable, CORS)
\*   "never"       no response at all
ResponseKinds ==
    {"vec", "noEmbedding", "noData", "status", "status404", "network", "never"}

Returned(vec) == [status |-> "ok", vec |-> vec, error |-> "none"]
Threw(kind) == [status |-> "throw", vec |-> NoVector, error |-> kind]
Pending == [status |-> "hang", vec |-> NoVector, error |-> "none"]

\* the outcome of fetchEmbedding(text, settings) when the provider answers
\* with a response of kind resp.kind carrying the vector resp.vec
fetchEmbedding(settings, resp) ==
    IF settings.embeddingProvider = "openai" THEN
        IF settings.openaiKey = "" THEN Threw("config")
        ELSE CASE resp.kind = "network" -> Threw("network")
               [] resp.kind = "never" -> Pending
               [] resp.kind \in {"status", "status404"} -> Threw("provider")
               [] resp.kind = "noData" -> Threw("typeError")
               [] resp.kind = "noEmbedding" -> Returned(NoVector)
               [] OTHER -> Returned(resp.vec)
    ELSE IF settings.embeddingProvider = "openrouter" THEN
        IF settings.openrouterKey = "" THEN Threw("config")
        ELSE CASE resp.kind = "network" -> Threw("network")
               [] resp.kind = "never" -> Pending
               [] resp.kind \in {"status", "status404"} -> Threw("provider")
               [] resp.kind \in {"noData", "noEmbedding"} -> Threw("malformed")
               [] OTHER -> Returned(resp.vec)
    ELSE
        CASE resp.kind = "network" -> Threw("cors")
          [] resp.kind = "never" -> Threw("timeout")
          [] resp.kind = "status404" -> Threw("modelNotFound")
          [] resp.kind = "status" -> Threw("provider")
          [] resp.kind \in {"noData", "noEmbedding"} -> Returned(NoVector)
          [] OTHER -> Returned(resp.vec)

----------------------------------------------------------------------------
(* Similarity (llmTools.ts cosineSimilarity)                               *)

RECURSIVE SumTo(_, _)
SumTo(f, n) == IF n = 0 THEN 0 ELSE f[n] + SumTo(f, n - 1)

Dot(a, b) == SumTo([i \in DOMAIN a |-> a[i] * b[i]], Len(a))

\* A score is kept exact as the fraction n/d = cos * |cos| (d > 0), the
\* signed square of the cosine: dot*|dot| over magA^2 * magB^2.  x |-> x*|x|
\* is strictly increasing, so scores compare as the cosines do, without a
\* square root.
ZeroScore == [n |-> 0, d |-> 1]

Abs(n) == IF n < 0 THEN -n ELSE n

\* the guard on the lengths left out, a vector that is too short read as
\* padded with zeros
cosineSimilarity_Padded(vecA, vecB) ==
    IF ~vecA.present \/ ~vecB.present
    THEN ZeroScore
    ELSE LET n == Max2(Len(vecA.v), Len(vecB.v))
             a == [i \in 1..n |-> IF i <= Len(vecA.v) THEN vecA.v[i] ELSE 0]
             b == [i \in 1..n |-> IF i <= Len(vecB.v) THEN vecB.v[i] ELSE 0]
             dotProduct == Dot(a, b)
             magA2 == Dot(a, a)
             magB2 == Dot(b, b)
         IN  IF magA2 = 0 \/ magB2 = 0 THEN ZeroScore
             ELSE [n |-> dotProduct * Abs(dotProduct), d |-> magA2 * magB2]

cosineSimilarity(vecA, vecB) ==
    IF ~vecA.present \/ ~vecB.present \/ Len(vecA.v) # Len(vecB.v)
    THEN ZeroScore
    ELSE LET dotProduct == Dot(vecA.v, vecB.v)
             magA2 == Dot(vecA.v, vecA.v)
             magB2 == Dot(vecB.v, vecB.v)
         IN  IF magA2 = 0 \/ magB2 = 0 THEN ZeroScore
             ELSE [n |-> dotProduct * Abs(dotProduct), d |-> magA2 * magB2]

\* a.score > b.score, a.score = b.score
ScoreGT(a, b) == a.n * b.d > b.n * a.d
ScoreEQ(a, b) == a.n * b.d = b.n * a.d

\* the threshold 0.25 of retrieveContext, as the fraction 1/4
ThresholdNum == 1
ThresholdDen == 4

\* score > 0.25, that is cos*|cos| > 1/16
AboveThreshold(s) ==
    s.n * ThresholdDen * ThresholdDen > s.d * ThresholdNum * ThresholdNum

----------------------------------------------------------------------------
(* 4. Retrieval (llmTools.ts retrieveContext)                              *)

\* the label of a chunk whose document is not in the list
UNKNOWN_DOC == "unknown document"

\* chunks.map(chunk => ({chunk, score}))
ScoreChunks(chunks, queryVec) ==
    [i \in DOMAIN chunks |->
        [chunk |-> chunks[i],
         score |-> IF chunks[i].vector.present /\ queryVec.present
                   THEN cosineSimilarity(queryVec, chunks[i].vector)
                   ELSE ZeroScore]]

PassesThreshold(s) == AboveThreshold(s.score)

\* the comparator written the other way round: (a, b) => a.score - b.score
HigherScore_Ascending(a, b) == ScoreGT(b.score, a.score)

\* the comparator (a, b) => b.score - a.score puts a first when it scores more
HigherScore(a, b) == ScoreGT(a.score, b.score)

\* the list cut to topK before it is sorted
TopChunks_SliceFirst(scoredChunks, topK) ==
    StableSort(Slice(FilterSeq(scoredChunks, PassesThreshold), 0, topK),
               HigherScore)

\* .filter(s => s.score > 0.25).sort((a, b) => b.score - a.score).slice(0, topK)
TopChunks(scoredChunks, topK) ==
    Slice(StableSort(FilterSeq(scoredChunks, PassesThreshold), HigherScore),
          0, topK)

\* the lookup left out: every context labelled as of an unknown document
DocTitle_Unknown(documents, docId) == UNKNOWN_DOC

\* documents.find(d => d.id === docId), as the title shown
DocTitle(documents, docId) ==
    IF \E j \in DOMAIN documents : documents[j].id = docId
    THEN documents[CHOOSE j \in DOMAIN documents :
                      /\ documents[j].id = docId
                      /\ \A h \in 1..(j - 1) : documents[h].id # docId].title
    ELSE UNKNOWN_DOC

\* the RetrievalContext list built from the query vector
BuildContexts(chunks, queryVec, topK, documents) ==
    LET top == TopChunks(ScoreChunks(chunks, queryVec), topK)
    IN  [i \in DOMAIN top |->
            [chunkId |-> top[i].chunk.id,
             docId |-> top[i].chunk.docId,
             docTitle |-> DocTitle(documents, top[i].chunk.docId),
             content |-> top[i].chunk.text,
             score |-> top[i].score,
             relatedEntities |-> extractEntities(top[i].chunk.text)]]

\* the error of fetchEmbedding swallowed: an empty result in its place
RetrieveOutcome_Swallow(chunks, settings, documents, e) ==
    [status |-> "returned",
     contexts |-> IF e.status = "ok"
                  THEN BuildContexts(chunks, e.vec, settings.ragConfig.topK,
                                     documents)
                  ELSE <<>>,
     error |-> "none"]

\* retrieveContext after `await fetchEmbedding(query, settings)` has settled
\* with e: the rejection propagates, or the contexts are built and returned
RetrieveOutcome(chunks, settings, documents, e) ==
    IF e.status = "ok"
    THEN [status |-> "returned",
          contexts |-> BuildContexts(chunks, e.vec, settings.ragConfig.topK,
                                     documents),
          error |-> "none"]
    ELSE [status |-> "threw", contexts |-> <<>>, error |-> e.error]

\* the guard without its second half: if (!query) return [];
ReturnsAtOnce_QueryOnly(query, chunks) == query = <<>>

\* if (!query || chunks.length === 0) return [];
ReturnsAtOnce(query, chunks) == query = <<>> \/ Len(chunks) = 0

----------------------------------------------------------------------------
(* Graph of the whole corpus (llmTools.ts rebuildGraphFromChunks)          *)

EmptyGraph == [nodes |-> <<>>, links |-> <<>>]

\* the lookup that finds nothing: every entity is pushed as a new node
HasNode_Never(nodes, id) == FALSE

\* nodes.find(n => n.id === id) finds a node
HasNode(nodes, id) == \E i \in DOMAIN nodes : nodes[i].id = id

\* entities.forEach(ent => ...) for the entities of one chunk, from the k-th
RECURSIVE AddEntities(_, _, _, _)
AddEntities(g, chunkId, entities, k) ==
    IF k > Len(entities) THEN g
    ELSE LET entId == EntId(entities[k])
             withNode == IF ~HasNode(g.nodes, entId)
                         THEN Append(g.nodes, [id |-> entId, type |-> "entity"])
                         ELSE g.nodes
             withLink == Append(g.links, [source |-> chunkId, target |-> entId,
                                          type |-> "mentions"])
         IN  AddEntities([nodes |-> withNode, links |-> withLink],
                         chunkId, entities, k + 1)

\* the body of chunks.forEach for one chunk
AddChunk(g, chunk) ==
    LET withNode == Append(g.nodes, [id |-> chunk.id, type |-> "chunk"])
        withLink == Append(g.links, [source |-> chunk.docId, target |-> chunk.id,
                                     type |-> "contains"])
    IN  AddEntities([nodes |-> withNode, links |-> withLink],
                    chunk.id, extractEntities(chunk.text), 1)

RECURSIVE AddChunks(_, _, _)
AddChunks(g, chunks, k) ==
    IF k > Len(chunks) THEN g
    ELSE AddChunks(AddChunk(g, chunks[k]), chunks, k + 1)

rebuildGraphFromChunks(documents, chunks) ==
    LET docNodes == [i \in DOMAIN documents |->
                        [id |-> documents[i].id, type |-> "doc"]]
    IN  AddChunks([nodes |-> docNodes, links |-> <<>>], chunks, 1)

NodeIds(g) == {g.nodes[i].id : i \in DOMAIN g.nodes}

----------------------------------------------------------------------------
(* Graph of one answer (GraphView.tsx, inference roadmap)                  *)

\* 'query_root'
QueryId == [k |-> "query", d |-> 0, i |-> 0, t |-> <<>>]

\* the weight of a link pushed without one
NoWeight == [n |-> 0, d |-> 0]

\* every document is taken for a new one
DocAdded_Never(addedDocs, docId) == FALSE

\* addedDocs.has(ctx.docId)
DocAdded(addedDocs, docId) == docId \in addedDocs

\* ctx.relatedEntities.forEach(ent => ...) from the k-th entity
RECURSIVE RoadmapEntities(_, _, _, _)
RoadmapEntities(g, chunkNodeId, entities, k) ==
    IF k > Len(entities) THEN g
    ELSE LET entId == EntId(entities[k])
             withNode == IF ~HasNode(g.nodes, entId)
                         THEN Append(g.nodes, [id |-> entId, type |-> "entity"])
                         ELSE g.nodes
             withLink == Append(g.links,
                                [source |-> chunkNodeId, target |-> entId,
                                 type |-> "mentions", weight |-> NoWeight])
         IN  RoadmapEntities([g EXCEPT !.nodes = withNode, !.links = withLink],
                             chunkNodeId, entities, k + 1)

\* the body of focusContext.forEach for one context
RoadmapContext(g, ctx) ==
    LET newChunk == ~HasNode(g.nodes, ctx.chunkId)
        nodes1 == IF newChunk
                  THEN Append(g.nodes, [id |-> ctx.chunkId, type |-> "chunk"])
                  ELSE g.nodes
        links1 == IF newChunk
                  THEN Append(g.links,
                              [source |-> QueryId, target |-> ctx.chunkId,
                               type |-> "similar_to", weight |-> ctx.score])
                  ELSE g.links
        newDoc == ~DocAdded(g.addedDocs, ctx.docId)
        nodes2 == IF newDoc
                  THEN Append(nodes1, [id |-> ctx.docId, type |-> "doc"])
                  ELSE nodes1
        links2 == Append(links1, [source |-> ctx.chunkId, target |-> ctx.docId,
                                  type |-> "contains", weight |-> NoWeight])
    IN  RoadmapEntities([nodes |-> nodes2, links |-> links2,
                         addedDocs |-> g.addedDocs \cup {ctx.docId}],
                        ctx.chunkId, ctx.relatedEntities, 1)

RECURSIVE RoadmapContexts(_, _, _)
RoadmapContexts(g, focusContext, k) ==
    IF k > Len(focusContext) THEN g
    ELSE RoadmapContexts(RoadmapContext(g, focusContext[k]), focusContext,
                         k + 1)

\* the nodes and links the effect of GraphView hands to the simulation: the
\* roadmap when a query is given, the graph of the whole corpus when not
GraphViewData(focusQuery, focusContext, graph) ==
    IF focusQuery # <<>>
    THEN LET g == RoadmapContexts(
                      [nodes |-> <<[id |-> QueryId, type |-> "query"]>>,
                       links |-> <<>>, addedDocs |-> {}], focusContext, 1)
         IN  [nodes |-> g.nodes, links |-> g.links]
    ELSE graph

----------------------------------------------------------------------------
(* State                                                                   *)

VARIABLES
    rt,     \* one call of retrieveContext: its arguments, the provider's
            \* answer, where the call stands and what it produced
    gb,     \* one call of rebuildGraphFromChunks: its arguments and result
    fn,     \* one call of another function of the engine or of the graph
            \* view: its name, its arguments, where it stands, its result
    \* the state of the App component (useState)
    documents,      \* Document[]
    chunks,         \* TextChunk[], the vector store in memory
    graphData,      \* KnowledgeGraph
    messages,       \* Message[]
    isLoading,      \* boolean
    error,          \* the error banner, "none" for null
    \* IndexedDB (services/db.ts)
    dbDocuments,    \* object store documents, keyed by id
    dbChunks,       \* object store chunks, keyed by id
    \* handlers in flight
    runs,           \* the calls of handleAddDocument / handleUpdateDocument
    removal,        \* the confirmed handleRemoveDocument, if one is running
    sends,          \* the calls of handleSendMessage
    deleted,        \* ids whose dbService.deleteDocument has completed
    faults,         \* how many provider and IndexedDB requests have failed
    \* the chat sessions of the App component and of IndexedDB
    sessions,           \* ChatSession[], the list in the sidebar
    currentSessionId,   \* the session displayed, NoSession for null
    dbSessions,         \* object store sessions, keyed by id
    dbMessages,         \* object store messages, keyed by id
    chatSends,          \* the calls of handleSendMessage, session by session
    deletions,          \* the confirmed calls of handleDeleteSession
    load                \* the call of loadSession, if one is running

appVars == <<documents, chunks, graphData, messages, isLoading, error,
             dbDocuments, dbChunks, runs, removal, sends, deleted, faults>>

chatVars == <<sessions, currentSessionId, dbSessions, dbMessages, chatSends,
              deletions, load>>

vars == <<rt, gb, fn, documents, chunks, graphData, messages, isLoading, error,
          dbDocuments, dbChunks, runs, removal, sends, deleted, faults,
          chatVars>>

----------------------------------------------------------------------------
(* Inputs                                                                  *)

\* texts used as document contents, chunk texts and queries
TextAKA == <<"a","a","a"," ","k","k","k"," ","a","a","a">>
TextK == <<"k","k","k">>
TextLong == <<"k","k","k","k","k","k">>
QueryText == <<"a","a","a">>

Doc(n, status) ==
    [id |-> DocId(n), title |-> "title", content |-> TextAKA, status |-> status]

\* DEFAULT_SETTINGS, with the embedding provider, the keys and topK given
Settings(provider, openaiKey, openrouterKey, topK) ==
    [embeddingProvider |-> provider, openaiKey |-> openaiKey,
     openrouterKey |-> openrouterKey,
     ragConfig |-> [chunkSize |-> 2, chunkOverlap |-> 1, topK |-> topK]]

\* the query vector and chunk vectors: against QueryVector their cosines
\* are 0.9, 0.5, 0.2, 0.8, 0.5 again (a parallel vector), and no vector
QueryVector == <<1, 0, 0, 0>>
ScoringVectors ==
    { Vec(<<9, 3, 3, 1>>), Vec(<<1, 1, 1, 1>>), Vec(<<1, 4, 2, 2>>),
      Vec(<<4, 3, 0, 0>>), Vec(<<2, 2, 2, 2>>), NoVector }

\* vectors that cannot be scored against a query vector of length 4, next
\* to one that can: no vector, a shorter vector, a zero vector, an empty one
UnusableVectors ==
    { Vec(<<9, 3, 3, 1>>), NoVector, Vec(<<9, 3>>), Vec(<<0, 0, 0, 0>>),
      Vec(<<>>) }

\* what the embedding provider answers for the query: the query vector, a
\* zero vector, a vector of another length, or a body without the embedding
QueryAnswers ==
    { [kind |-> "vec", vec |-> Vec(QueryVector)],
      [kind |-> "vec", vec |-> Vec(<<0, 0, 0, 0>>)],
      [kind |-> "vec", vec |-> Vec(<<1, 0>>)],
      [kind |-> "noEmbedding", vec |-> NoVector] }

\* the i-th chunk of a list: chunks alternate between documents 1 and 2
ChunkAt(i, vector) ==
    [id |-> ChunkId(DocId(2 - (i % 2)), i), docId |-> DocId(2 - (i % 2)),
     text |-> IF i % 2 = 1 THEN TextAKA ELSE TextK, vector |-> vector]

ChunkLists(vectors, lo, hi) ==
    UNION { { [i \in 1..k |-> ChunkAt(i, vs[i])] : vs \in [1..k -> vectors] }
            : k \in lo..hi }

RtIdle == [pc |-> "idle"]
GbIdle == [pc |-> "idle"]
FnIdle == [pc |-> "idle"]

NoResult == [contexts |-> <<>>, error |-> "none"]

\* the provider cases: every provider, key and kind of answer, with at most
\* one chunk and a query that may be empty
RtProviderInputs ==
    { [query |-> q, chunks |-> cs,
       settings |-> Settings(p, k1, k2, 1),
       documents |-> <<Doc(1, "ready")>>,
       resp |-> [kind |-> rk, vec |-> Vec(QueryVector)],
       pc |-> "called", embedCalls |-> 0, out |-> NoResult]
      : q \in {<<>>, QueryText},
        cs \in ChunkLists({Vec(<<9, 3, 3, 1>>), NoVector}, 0, 1),
        p \in Providers, k1 \in {"", "sk"}, k2 \in {"", "sk"},
        rk \in ResponseKinds }

\* retrieveContext is about to be called.  Either a scoring case (a
\* provider that answers with the query vector and up to n chunks), a case
\* of vectors that cannot be scored (up to n chunks, on either side of the
\* comparison), or a provider case.
RtScoringInputs(n) ==
    { [query |-> QueryText, chunks |-> cs,
       settings |-> Settings("local", "", "", k),
       documents |-> ds, resp |-> [kind |-> "vec", vec |-> Vec(QueryVector)],
       pc |-> "called", embedCalls |-> 0, out |-> NoResult]
      : cs \in ChunkLists(ScoringVectors, 1, n), k \in 1..MaxTopK,
        ds \in {<<>>, <<Doc(1, "ready")>>} }

RtUnusableInputs(n) ==
    { [query |-> QueryText, chunks |-> cs,
       settings |-> Settings("local", "", "", n),
       documents |-> <<Doc(1, "ready")>>, resp |-> qa,
       pc |-> "called", embedCalls |-> 0, out |-> NoResult]
      : cs \in ChunkLists(UnusableVectors, 1, n), qa \in QueryAnswers }

\* rebuildGraphFromChunks is about to be called with documents 1..n and
\* chunks of documents 1..3, so a chunk may belong to no document given
GraphChunk(i, d, text) ==
    [id |-> ChunkId(DocId(d), i), docId |-> DocId(d), text |-> text,
     vector |-> NoVector]

GbInputs ==
    UNION { { [documents |-> [j \in 1..n |-> Doc(j, "ready")],
               chunks |-> [i \in 1..k |-> GraphChunk(i, ds[i], ts[i])],
               pc |-> "called", graph |-> EmptyGraph]
              : n \in 0..2, ds \in [1..k -> 1..3],
                ts \in [1..k -> {TextAKA, TextK, TextLong}] }
            : k \in 0..MaxGraphChunks }

\* the App component after loadData on an empty database
NoRemoval == [pc |-> "none", id |-> DocId(0)]
NoLoad == [pc |-> "none", id |-> NoSession]

AppInit ==
    /\ documents = <<>>
    /\ chunks = <<>>
    /\ graphData = EmptyGraph
    /\ messages = <<>>
    /\ isLoading = FALSE
    /\ error = "none"
    /\ dbDocuments = {}
    /\ dbChunks = {}
    /\ runs = <<>>
    /\ removal = NoRemoval
    /\ sends = <<>>
    /\ deleted = {}
    /\ faults = 0
    /\ sessions = <<>>
    /\ currentSessionId = NoSession
    /\ dbSessions = {}
    /\ dbMessages = {}
    /\ chatSends = <<>>
    /\ deletions = <<>>
    /\ load = NoLoad

----------------------------------------------------------------------------
(* retrieveContext, step by step                                           *)

\* the call runs up to its first await: it returns [] at once, or calls
\* fetchEmbedding for the query
RetrieveCall ==
    /\ rt.pc = "called"
    /\ IF ReturnsAtOnce(rt.query, rt.chunks)
       THEN rt' = [rt EXCEPT !.pc = "returned"]
       ELSE rt' = [rt EXCEPT !.pc = "embedding", !.embedCalls = @ + 1]
    /\ UNCHANGED <<gb, fn, appVars, chatVars>>

\* fetchEmbedding settles; the rest of retrieveContext runs
RetrieveEmbedSettles ==
    /\ rt.pc = "embedding"
    /\ LET e == fetchEmbedding(rt.settings, rt.resp)
           o == RetrieveOutcome(rt.chunks, rt.settings, rt.documents, e)
       IN  /\ e.status # "hang"
           /\ rt' = [rt EXCEPT !.pc = o.status,
                               !.out = [contexts |-> o.contexts,
                                        error |-> o.error]]
    /\ UNCHANGED <<gb, fn, appVars, chatVars>>

InitRetrieve ==
    /\ \/ rt \in RtScoringInputs(MaxChunks)
       \/ rt \in RtUnusableInputs(MaxBadChunks)
       \/ rt \in RtProviderInputs
    /\ gb = GbIdle /\ fn = FnIdle /\ AppInit
NextRetrieve == RetrieveCall \/ RetrieveEmbedSettles
SpecRetrieve == InitRetrieve /\ [][NextRetrieve]_vars

\* the continuation of retrieveContext runs once its awaited promise has
\* settled: the event loop leaves no settled promise unhandled
\* the provider cases whose chunk, if there is one, has no vector: what the
\* call does then depends on the provider alone
InitProviders ==
    /\ rt \in {x \in RtProviderInputs :
                 \A i \in DOMAIN x.chunks : ~x.chunks[i].vector.present}
    /\ gb = GbIdle /\ fn = FnIdle /\ AppInit
SpecRetrieveLive ==
    InitProviders /\ [][NextRetrieve]_vars /\ WF_vars(NextRetrieve)

----------------------------------------------------------------------------
(* rebuildGraphFromChunks as one step                                      *)

BuildGraph ==
    /\ gb.pc = "called"
    /\ gb' = [gb EXCEPT !.pc = "returned",
                        !.graph = rebuildGraphFromChunks(gb.documents, gb.chunks)]
    /\ UNCHANGED <<rt, fn, appVars, chatVars>>

InitGraph == gb \in GbInputs /\ rt = RtIdle /\ fn = FnIdle /\ AppInit
NextGraph == BuildGraph
SpecGraph == InitGraph /\ [][NextGraph]_vars

----------------------------------------------------------------------------
(* chunkText as called by processDocument, one loop iteration per step     *)

\* the text of the example of the chunker
ExampleText == <<"a", " ", "b", " ", "c", " ", "d", " ", "e", " ", "f">>

\* texts of up to MaxWords words of one or of four letters, separated by
\* single blanks, with or without white space in front or behind
ChunkTexts ==
    {ExampleText} \cup
    UNION { { lead \o JoinBlank(ws) \o trail
              : ws \in [1..k -> {<<"a">>, <<"k", "k", "k", "k">>}],
                lead \in {<<>>, <<" ">>}, trail \in {<<>>, <<"\n">>} }
            : k \in 0..MaxWords }

\* processDocument is about to call chunkText with the content of the
\* document and the chunkSize and chunkOverlap of the settings
ChunkInputs ==
    { [op |-> "chunkText", text |-> t, size |-> size, overlap |-> overlap,
       pc |-> "called", words |-> <<>>, i |-> 0, chunks |-> <<>>, iters |-> 0]
      : t \in ChunkTexts, size \in 1..MaxSize, overlap \in 0..MaxOverlap }

\* processDocument calls chunkText(doc.content, chunkSize, chunkOverlap);
\* chunkText splits the text and enters its loop
ChunkTextCall ==
    /\ fn.op = "chunkText"
    /\ fn.pc = "called"
    /\ fn' = [fn EXCEPT !.pc = "loop", !.words = SplitWS(fn.text, <<>>, FALSE)]
    /\ UNCHANGED <<rt, gb, appVars, chatVars>>

\* the loop condition and, if it holds, one run of the loop body
ChunkTextIterate ==
    /\ fn.op = "chunkText"
    /\ fn.pc = "loop"
    /\ fn.iters < MaxIters
    /\ IF fn.i < Len(fn.words)
       THEN LET chunk == Window(fn.words, fn.i, fn.size)
                pushed == IF KeepChunk(chunk) THEN Append(fn.chunks, chunk)
                          ELSE fn.chunks
            IN  IF LastWindow(fn.i, fn.size, Len(fn.words))
                THEN fn' = [fn EXCEPT !.chunks = pushed, !.iters = @ + 1,
                                      !.pc = "returned"]
                ELSE fn' = [fn EXCEPT !.chunks = pushed, !.iters = @ + 1,
                                      !.i = NextStart(fn.i, fn.size, fn.overlap)]
       ELSE fn' = [fn EXCEPT !.pc = "returned"]
    /\ UNCHANGED <<rt, gb, appVars, chatVars>>

InitChunk == fn \in ChunkInputs /\ rt = RtIdle /\ gb = GbIdle /\ AppInit
NextChunk == ChunkTextCall \/ ChunkTextIterate
SpecChunk == InitChunk /\ [][NextChunk]_vars

\* the loop is synchronous code: once entered it runs on
SpecChunkLive == SpecChunk /\ WF_vars(NextChunk)

----------------------------------------------------------------------------
(* tokenize and extractEntities, and the two places that use the entities  *)

\* words of a text: plain tokens, a short one, numbers, one of zeros, a
\* stop word, one in capitals, one with punctuation inside
TokWords ==
    { <<"a","a","a">>, <<"k","k","k">>, <<"a","k">>, <<"0","0","0">>,
      <<"1","2","0">>, <<"i","n","n">>, <<"A","K","A">>,
      <<"a","a","-","k","k","k">> }

\* six distinct tokens
SixTokens ==
    << <<"a","a","a">>, <<"k","k","k">>, <<"a","k","a">>, <<"k","a","k">>,
       <<"a","a","k">>, <<"k","k","a">> >>

\* the texts: up to MaxTokWords words, or the six tokens followed by up to
\* MaxExtraWords of them again
TokTexts ==
    UNION { {JoinBlank(ws) : ws \in [1..k -> TokWords]} : k \in 0..MaxTokWords }
    \cup
    UNION { {JoinBlank(SixTokens \o ws) : ws \in [1..k -> Range(SixTokens)]}
            : k \in 0..MaxExtraWords }

TokInputs ==
    { [op |-> o, text |-> t, pc |-> "called", out |-> <<>>,
       graph |-> EmptyGraph, contexts |-> <<>>, roadmap |-> EmptyGraph]
      : o \in {"tokenize", "extractEntities"}, t \in TokTexts }

Tokenize ==
    /\ fn.op = "tokenize"
    /\ fn.pc = "called"
    /\ fn' = [fn EXCEPT !.pc = "returned", !.out = tokenize(fn.text)]
    /\ UNCHANGED <<rt, gb, appVars, chatVars>>

\* extractEntities(text), and what its callers make of a chunk with this
\* text: the graph of the corpus, the RetrievalContext of the chunk, and the
\* roadmap drawn from that context
ExtractEntities ==
    /\ fn.op = "extractEntities"
    /\ fn.pc = "called"
    /\ LET chunk == [id |-> ChunkId(DocId(1), 0), docId |-> DocId(1),
                     text |-> fn.text, vector |-> Vec(QueryVector)]
           docs == <<Doc(1, "ready")>>
           ctxs == BuildContexts(<<chunk>>, Vec(QueryVector), 1, docs)
       IN  fn' = [fn EXCEPT !.pc = "returned",
                            !.out = extractEntities(fn.text),
                            !.graph = rebuildGraphFromChunks(docs, <<chunk>>),
                            !.contexts = ctxs,
                            !.roadmap = GraphViewData(QueryText, ctxs,
                                                      EmptyGraph)]
    /\ UNCHANGED <<rt, gb, appVars, chatVars>>

InitTokens == fn \in TokInputs /\ rt = RtIdle /\ gb = GbIdle /\ AppInit
NextTokens == Tokenize \/ ExtractEntities
SpecTokens == InitTokens /\ [][NextTokens]_vars

----------------------------------------------------------------------------
(* The effect of GraphView that initialises the data, as one step          *)

\* the i-th RetrievalContext of a message: a chunk of document d
ContextAt(i, d, score, entities) ==
    [chunkId |-> ChunkId(DocId(d), i), docId |-> DocId(d),
     docTitle |-> "title", content |-> TextAKA, score |-> score,
     relatedEntities |-> entities]

\* GraphView is mounted with a query (empty when the whole corpus is shown)
\* and the contexts of a message
RoadmapInputs ==
    UNION { { [op |-> "graphView", focusQuery |-> q,
               focusContext |-> [i \in 1..k |-> ContextAt(i, ds[i], ss[i], es[i])],
               pc |-> "called", out |-> EmptyGraph]
              : q \in {<<>>, QueryText}, ds \in [1..k -> 1..2],
                ss \in [1..k -> {[n |-> 81, d |-> 100], [n |-> 1, d |-> 4]}],
                es \in [1..k -> {<<>>, <<TextK>>, <<QueryText, TextK>>}] }
            : k \in 0..MaxContexts }

InitGraphData ==
    /\ fn.op = "graphView"
    /\ fn.pc = "called"
    /\ fn' = [fn EXCEPT !.pc = "returned",
                        !.out = GraphViewData(fn.focusQuery, fn.focusContext,
                                              EmptyGraph)]
    /\ UNCHANGED <<rt, gb, appVars, chatVars>>

InitRoadmap == fn \in RoadmapInputs /\ rt = RtIdle /\ gb = GbIdle /\ AppInit
NextRoadmap == InitGraphData
SpecRoadmap == InitRoadmap /\ [][NextRoadmap]_vars

----------------------------------------------------------------------------
(* The App component (types.ts): settings, provider, IndexedDB             *)

\* the settings in force: DEFAULT_SETTINGS (local provider), scaled down
AppSettings == Settings("local", "", "", 2)

\* the provider's vector for a text; the same text gets the same vector
ProviderVector(text) ==
    IF text # <<>> /\ text[1] = "a" THEN Vec(<<9, 3, 3, 1>>)
    ELSE Vec(<<4, 3, 0, 0>>)

\* how the provider answers one embedding request of the application
AppResponseKinds == {"vec", "network"}

\* the contents the user saves: a text of three words, which chunkText cuts
\* into two chunks under AppSettings
AppContents == {TextAKA}

\* IDBObjectStore.put, delete, and the cursor over the by-doc index
DbPut(store, rec) == {x \in store : x.id # rec.id} \cup {rec}
DbPutAll(store, recs) ==
    {x \in store : \A i \in DOMAIN recs : recs[i].id # x.id} \cup Range(recs)
DbDelete(store, id) == {x \in store : x.id # id}
DbDeleteByDoc(store, docId) == {x \in store : x.docId # docId}

\* a request to the provider or to IndexedDB succeeds (ok) or fails; the
\* failures of one behaviour are counted and capped
Settles(ok) ==
    IF ok THEN UNCHANGED faults
    ELSE faults < MaxFaults /\ faults' = faults + 1

\* the handler calls so far
Ops == Len(runs) + Len(sends)

NoDoc == [id |-> DocId(0), title |-> "", content |-> <<>>, status |-> "none"]

ProbeCall == [what |-> "probe", idx |-> 0]
ChunkCall(idx) == [what |-> "chunk", idx |-> idx]

\* a call of handleAddDocument / handleUpdateDocument: the handler closes
\* over the chunks and documents of the render it was created in
NewRun(kind, oldId, content, pc) ==
    [kind |-> kind, pc |-> pc, oldId |-> oldId, content |-> content,
     capChunks |-> chunks, capDocuments |-> documents,
     doc |-> NoDoc, textChunks |-> <<>>, newChunks |-> <<>>,
     calls |-> <<>>, results |-> <<>>, dbLog |-> <<>>, during |-> {},
     outcome |-> "running", error |-> "none"]

InFlight(r) == runs[r].pc # "done" /\ runs[r].doc # NoDoc

\* handleAddDocument up to its first await: the new document (the r-th
\* randomUUID), and processDocument's probe call fetchEmbedding("test")
EnterAdd(run, r) ==
    [run EXCEPT !.doc = [id |-> DocId(r), title |-> "title",
                         content |-> run.content, status |-> "indexing"],
                !.pc = "probe",
                !.calls = <<ProbeCall>>,
                !.during = {i \in DOMAIN runs : i # r /\ InFlight(i)}]

\* processDocument catches the rejection and returns the chunks it has
Failed_ReturnsPartial(run, err) == [run EXCEPT !.pc = "addDoc"]

\* a rejected probe is ignored and the chunks are embedded all the same
Failed_IgnoreProbe(run, err) ==
    LET tcs == chunkText(run.doc.content, AppSettings.ragConfig.chunkSize,
                         AppSettings.ragConfig.chunkOverlap)
    IN  IF Len(run.results) = 1 /\ tcs # <<>>
        THEN [run EXCEPT !.textChunks = tcs, !.pc = "embed",
                         !.calls = Append(@, ChunkCall(0))]
        ELSE [run EXCEPT !.pc = "done", !.outcome = "error", !.error = err]

\* a rejected fetchEmbedding leaves processDocument and reaches the catch
\* block of handleAddDocument
Failed(run, err) ==
    [run EXCEPT !.pc = "done", !.outcome = "error", !.error = err]

\* a rejected dbService call reaches the same catch block
DbFailed(run) ==
    [run EXCEPT !.pc = "done", !.outcome = "error", !.error = "db",
                !.dbLog = Append(@, "throw")]

\* processDocument after the probe has settled with e
RunAfterProbe(run, e) ==
    LET logged == [run EXCEPT !.results = Append(@, e.status)]
        tcs == chunkText(run.doc.content, AppSettings.ragConfig.chunkSize,
                         AppSettings.ragConfig.chunkOverlap)
    IN  IF e.status # "ok" THEN Failed(logged, e.error)
        ELSE IF tcs = <<>>
             THEN [logged EXCEPT !.textChunks = tcs, !.pc = "addDoc"]
             ELSE [logged EXCEPT !.textChunks = tcs, !.pc = "embed",
                                 !.calls = Append(@, ChunkCall(0))]

\* processDocument after the embedding of chunk idx has settled with e
RunAfterEmbed(run, e) ==
    LET idx == Len(run.newChunks)
        logged == [run EXCEPT !.results = Append(@, e.status)]
        chunkObj == [id |-> ChunkId(run.doc.id, idx), docId |-> run.doc.id,
                     text |-> run.textChunks[idx + 1], vector |-> e.vec]
        pushed == [logged EXCEPT !.newChunks = Append(@, chunkObj)]
    IN  IF e.status # "ok" THEN Failed(logged, e.error)
        ELSE IF idx + 1 < Len(run.textChunks)
             THEN [pushed EXCEPT !.calls = Append(@, ChunkCall(idx + 1))]
             ELSE [pushed EXCEPT !.pc = "addDoc"]

\* the catch block leaves the document as it is
MarkError_Forgotten(docs, newDoc) == docs

\* prev.map(d => d.id === newDoc.id ? errorDoc : d)
MarkError(docs, newDoc) ==
    [i \in DOMAIN docs |-> IF docs[i].id = newDoc.id
                           THEN [newDoc EXCEPT !.status = "error"]
                           ELSE docs[i]]

\* prev.map(d => d.id === newDoc.id ? readyDoc : d)
MarkReady(docs, newDoc) ==
    [i \in DOMAIN docs |-> IF docs[i].id = newDoc.id
                           THEN [newDoc EXCEPT !.status = "ready"]
                           ELSE docs[i]]

\* prevDocs.filter(d => d.id !== id), prevChunks.filter(c => c.docId !== id)
WithoutDoc(docs, id) == PickIdx(docs, {i \in DOMAIN docs : docs[i].id # id}, 1)
WithoutChunksOf(cs, id) == PickIdx(cs, {i \in DOMAIN cs : cs[i].docId # id}, 1)

----------------------------------------------------------------------------
(* handleAddDocument                                                       *)

\* catch and finally of handleAddDocument
CatchIndexing(run) ==
    /\ error' = run.error
    /\ documents' = MarkError(documents, run.doc)
    /\ isLoading' = FALSE

\* the user saves a new document with this content
StartAdd(content) ==
    /\ UNCHANGED faults
    /\ Ops < MaxOps
    /\ removal.pc = "none"
    /\ LET r == Len(runs) + 1
           run == EnterAdd(NewRun("add", DocId(0), content, "probe"), r)
       IN  /\ runs' = Append(runs, run)
           /\ documents' = Append(documents, run.doc)
    /\ isLoading' = TRUE
    /\ error' = "none"
    /\ UNCHANGED <<rt, gb, fn, chunks, graphData, messages, dbDocuments,
                   dbChunks, removal, sends, deleted, chatVars>>

\* the probe call of run r settles
ProbeSettles(r, kind) ==
    /\ Settles(kind = "vec")
    /\ runs[r].pc = "probe"
    /\ LET e == fetchEmbedding(AppSettings,
                    [kind |-> kind, vec |-> ProviderVector(<<"t","e","s","t">>)])
           run2 == RunAfterProbe(runs[r], e)
       IN  /\ e.status # "hang"
           /\ runs' = [runs EXCEPT ![r] = run2]
           /\ IF run2.outcome = "error" THEN CatchIndexing(run2)
              ELSE UNCHANGED <<documents, isLoading, error>>
    /\ UNCHANGED <<rt, gb, fn, chunks, graphData, messages, dbDocuments,
                   dbChunks, removal, sends, deleted, chatVars>>

\* the embedding call for the next chunk of run r settles
EmbedSettles(r, kind) ==
    /\ Settles(kind = "vec")
    /\ runs[r].pc = "embed"
    /\ LET text == runs[r].textChunks[Len(runs[r].newChunks) + 1]
           e == fetchEmbedding(AppSettings,
                    [kind |-> kind, vec |-> ProviderVector(text)])
           run2 == RunAfterEmbed(runs[r], e)
       IN  /\ e.status # "hang"
           /\ runs' = [runs EXCEPT ![r] = run2]
           /\ IF run2.outcome = "error" THEN CatchIndexing(run2)
              ELSE UNCHANGED <<documents, isLoading, error>>
    /\ UNCHANGED <<rt, gb, fn, chunks, graphData, messages, dbDocuments,
                   dbChunks, removal, sends, deleted, chatVars>>

\* await dbService.addDocument(readyDoc) settles
AddDocSettles(r, ok) ==
    /\ Settles(ok)
    /\ runs[r].pc = "addDoc"
    /\ IF ok
       THEN /\ dbDocuments' = DbPut(dbDocuments,
                                    [runs[r].doc EXCEPT !.status = "ready"])
            /\ runs' = [runs EXCEPT ![r].pc = "addChunks",
                                    ![r].dbLog = Append(@, "ok")]
            /\ UNCHANGED <<documents, isLoading, error>>
       ELSE /\ runs' = [runs EXCEPT ![r] = DbFailed(runs[r])]
            /\ CatchIndexing(DbFailed(runs[r]))
            /\ UNCHANGED dbDocuments
    /\ UNCHANGED <<rt, gb, fn, chunks, graphData, messages, dbChunks, removal,
                   sends, deleted, chatVars>>

\* await dbService.addChunks(newChunks) settles; on success the rest of the
\* try block runs: the document becomes ready, the chunks and the graph are
\* set from the chunks and documents the handler closed over
AddChunksSettles(r, ok) ==
    /\ Settles(ok)
    /\ runs[r].pc = "addChunks"
    /\ IF ok
       THEN LET readyDoc == [runs[r].doc EXCEPT !.status = "ready"]
                allChunks == runs[r].capChunks \o runs[r].newChunks
            IN  /\ dbChunks' = DbPutAll(dbChunks, runs[r].newChunks)
                /\ documents' = MarkReady(documents, runs[r].doc)
                /\ chunks' = allChunks
                /\ graphData' = rebuildGraphFromChunks(
                                    Append(runs[r].capDocuments, readyDoc),
                                    allChunks)
                /\ isLoading' = FALSE
                /\ runs' = [runs EXCEPT ![r].pc = "done",
                                        ![r].outcome = "ready",
                                        ![r].dbLog = Append(@, "ok")]
                /\ UNCHANGED error
       ELSE /\ runs' = [runs EXCEPT ![r] = DbFailed(runs[r])]
            /\ CatchIndexing(DbFailed(runs[r]))
            /\ UNCHANGED <<dbChunks, chunks, graphData>>
    /\ UNCHANGED <<rt, gb, fn, messages, dbDocuments, removal, sends, deleted,
                   chatVars>>

----------------------------------------------------------------------------
(* handleRemoveDocument, after the user has confirmed                      *)

Removable(id) ==
    \E i \in DOMAIN documents :
        documents[i].id = id /\ documents[i].status # "indexing"

\* the user confirms the removal of a document that is not indexing; the
\* modal stays open over the main area until the handler ends
StartRemove(id) ==
    /\ UNCHANGED faults
    /\ removal.pc = "none"
    /\ Removable(id)
    /\ removal' = [pc |-> "delDoc", id |-> id]
    /\ UNCHANGED <<rt, gb, fn, documents, chunks, graphData, messages,
                   isLoading, error, dbDocuments, dbChunks, runs, sends,
                   deleted, chatVars>>

\* dbService.deleteDocument: await db.delete('documents', id) settles
RemoveDelDocSettles(ok) ==
    /\ Settles(ok)
    /\ removal.pc = "delDoc"
    /\ IF ok
       THEN /\ dbDocuments' = DbDelete(dbDocuments, removal.id)
            /\ removal' = [removal EXCEPT !.pc = "delChunks"]
            /\ UNCHANGED error
       ELSE /\ error' = "delete"
            /\ removal' = NoRemoval
            /\ UNCHANGED dbDocuments
    /\ UNCHANGED <<rt, gb, fn, documents, chunks, graphData, messages,
                   isLoading, dbChunks, runs, sends, deleted, chatVars>>

\* dbService.deleteDocument: the chunks transaction settles; on success the
\* state updaters run on the current documents and chunks
RemoveDelChunksSettles(ok) ==
    /\ Settles(ok)
    /\ removal.pc = "delChunks"
    /\ IF ok
       THEN LET newDocs == WithoutDoc(documents, removal.id)
                newChunks == WithoutChunksOf(chunks, removal.id)
            IN  /\ dbChunks' = DbDeleteByDoc(dbChunks, removal.id)
                /\ deleted' = deleted \cup {removal.id}
                /\ documents' = newDocs
                /\ chunks' = newChunks
                /\ graphData' = rebuildGraphFromChunks(newDocs, newChunks)
                /\ UNCHANGED error
       ELSE /\ error' = "delete"
            /\ UNCHANGED <<dbChunks, deleted, documents, chunks, graphData>>
    /\ removal' = NoRemoval
    /\ UNCHANGED <<rt, gb, fn, messages, isLoading, dbDocuments, runs, sends,
                   chatVars>>

----------------------------------------------------------------------------
(* handleUpdateDocument                                                    *)

\* the user saves the edit form of a document that is not indexing
StartUpdate(id, content) ==
    /\ UNCHANGED faults
    /\ Ops < MaxOps
    /\ removal.pc = "none"
    /\ Removable(id)
    /\ runs' = Append(runs, NewRun("update", id, content, "delDoc"))
    /\ isLoading' = TRUE
    /\ UNCHANGED <<rt, gb, fn, documents, chunks, graphData, messages, error,
                   dbDocuments, dbChunks, removal, sends, deleted, chatVars>>

\* catch of handleUpdateDocument
CatchUpdate(r) ==
    /\ runs' = [runs EXCEPT ![r].pc = "done", ![r].outcome = "deleteFailed",
                            ![r].error = "edit"]
    /\ error' = "edit"
    /\ isLoading' = FALSE

UpdateDelDocSettles(r, ok) ==
    /\ Settles(ok)
    /\ runs[r].pc = "delDoc"
    /\ IF ok
       THEN /\ dbDocuments' = DbDelete(dbDocuments, runs[r].oldId)
            /\ runs' = [runs EXCEPT ![r].pc = "delChunks"]
            /\ UNCHANGED <<error, isLoading>>
       ELSE /\ CatchUpdate(r)
            /\ UNCHANGED dbDocuments
    /\ UNCHANGED <<rt, gb, fn, documents, chunks, graphData, messages,
                   dbChunks, removal, sends, deleted, chatVars>>

\* the old chunks are deleted from the store; handleAddDocument is then
\* called with the new title and content and runs up to its first await
UpdateDelChunksSettles(r, ok) ==
    /\ Settles(ok)
    /\ runs[r].pc = "delChunks"
    /\ IF ok
       THEN LET run == EnterAdd(runs[r], r)
            IN  /\ dbChunks' = DbDeleteByDoc(dbChunks, runs[r].oldId)
                /\ deleted' = deleted \cup {runs[r].oldId}
                /\ runs' = [runs EXCEPT ![r] = run]
                /\ documents' = Append(documents, run.doc)
                /\ isLoading' = TRUE
                /\ error' = "none"
       ELSE /\ CatchUpdate(r)
            /\ UNCHANGED <<dbChunks, deleted, documents>>
    /\ UNCHANGED <<rt, gb, fn, chunks, graphData, messages, dbDocuments,
                   removal, sends, chatVars>>

----------------------------------------------------------------------------
(* handleSendMessage                                                       *)

NoContext == [present |-> FALSE, list |-> <<>>]

Message(s, role, kind, ctx) ==
    [send |-> s, role |-> role, kind |-> kind, retrievedContext |-> ctx]

\* the user submits a question (ChatView.handleSubmit refuses an empty input
\* and any input while isLoading); the handler runs up to the await inside
\* retrieveContext, or past it when retrieveContext returns at once
SendStart(query) ==
    /\ UNCHANGED faults
    /\ Ops < MaxOps
    /\ removal.pc = "none"
    /\ ~isLoading
    /\ LET s == Len(sends) + 1
           atOnce == ReturnsAtOnce(query, chunks)
       IN  /\ messages' = Append(messages, Message(s, "user", "question", NoContext))
           /\ sends' = Append(sends,
                [pc |-> IF atOnce THEN "generating" ELSE "retrieving",
                 query |-> query, capChunks |-> chunks,
                 capDocuments |-> documents,
                 embedCalls |-> IF atOnce THEN 0 ELSE 1,
                 embed |-> [status |-> "none", error |-> "none"],
                 context |-> <<>>, outcome |-> "running", error |-> "none"])
    /\ isLoading' = TRUE
    /\ error' = "none"
    /\ UNCHANGED <<rt, gb, fn, documents, chunks, graphData, dbDocuments,
                   dbChunks, runs, removal, deleted, chatVars>>

\* catch and finally of handleSendMessage
CatchSend(s, send, err) ==
    /\ sends' = [sends EXCEPT ![s] = [send EXCEPT !.pc = "done",
                                                  !.outcome = "error",
                                                  !.error = err]]
    /\ error' = err
    /\ messages' = Append(messages, Message(s, "assistant", "error", NoContext))
    /\ isLoading' = FALSE

\* the embedding of the query settles
SendEmbedSettles(s, kind) ==
    /\ Settles(kind = "vec")
    /\ sends[s].pc = "retrieving"
    /\ LET e == fetchEmbedding(AppSettings,
                    [kind |-> kind, vec |-> Vec(QueryVector)])
           o == RetrieveOutcome(sends[s].capChunks, AppSettings,
                                sends[s].capDocuments, e)
           send == [sends[s] EXCEPT
                      !.embed = [status |-> e.status, error |-> e.error]]
       IN  /\ e.status # "hang"
           /\ IF o.status = "returned"
              THEN /\ sends' = [sends EXCEPT
                                  ![s] = [send EXCEPT !.pc = "generating",
                                                      !.context = o.contexts]]
                   /\ UNCHANGED <<error, messages, isLoading>>
              ELSE CatchSend(s, send, o.error)
    /\ UNCHANGED <<rt, gb, fn, documents, chunks, graphData, dbDocuments,
                   dbChunks, runs, removal, deleted, chatVars>>

\* generateCompletion settles
SendGenerationSettles(s, ok) ==
    /\ Settles(ok)
    /\ sends[s].pc = "generating"
    /\ IF ok
       THEN /\ messages' = Append(messages,
                Message(s, "assistant", "answer",
                        [present |-> TRUE, list |-> sends[s].context]))
            /\ sends' = [sends EXCEPT ![s].pc = "done",
                                      ![s].outcome = "answered"]
            /\ isLoading' = FALSE
            /\ UNCHANGED error
       ELSE CatchSend(s, sends[s], "llm")
    /\ UNCHANGED <<rt, gb, fn, documents, chunks, graphData, dbDocuments,
                   dbChunks, runs, removal, deleted, chatVars>>

----------------------------------------------------------------------------
(* The application                                                         *)

Init == AppInit /\ rt = RtIdle /\ gb = GbIdle /\ fn = FnIdle

Next ==
    \/ \E c \in AppContents : StartAdd(c)
    \/ \E r \in DOMAIN runs, k \in AppResponseKinds : ProbeSettles(r, k)
    \/ \E r \in DOMAIN runs, k \in AppResponseKinds : EmbedSettles(r, k)
    \/ \E r \in DOMAIN runs, ok \in BOOLEAN : AddDocSettles(r, ok)
    \/ \E r \in DOMAIN runs, ok \in BOOLEAN : AddChunksSettles(r, ok)
    \/ \E i \in DOMAIN documents : StartRemove(documents[i].id)
    \/ \E ok \in BOOLEAN : RemoveDelDocSettles(ok)
    \/ \E ok \in BOOLEAN : RemoveDelChunksSettles(ok)
    \/ \E i \in DOMAIN documents, c \in AppContents :
          StartUpdate(documents[i].id, c)
    \/ \E r \in DOMAIN runs, ok \in BOOLEAN : UpdateDelDocSettles(r, ok)
    \/ \E r \in DOMAIN runs, ok \in BOOLEAN : UpdateDelChunksSettles(r, ok)
    \/ SendStart(QueryText)
    \/ \E s \in DOMAIN sends, k \in AppResponseKinds : SendEmbedSettles(s, k)
    \/ \E s \in DOMAIN sends, ok \in BOOLEAN : SendGenerationSettles(s, ok)

Spec == Init /\ [][Next]_vars

----------------------------------------------------------------------------
(* The chat sessions of the App component (types.ts): handleSendMessage    *)
(* with its session bookkeeping, loadSession, handleNewChat and            *)
(* handleDeleteSession.  retrieveContext and generateCompletion are here   *)
(* one awaited step that resolves or rejects.                              *)

\* what the chat handlers leave alone
knowledgeVars == <<rt, gb, fn, documents, chunks, graphData, dbDocuments,
                   dbChunks, runs, removal, sends, deleted>>

\* a ChatSession: updatedAt is Date.now() of the last send, so the session
\* just created or updated sorts first; preview is the s-th text sent
Session(id, title, preview) == [id |-> id, title |-> title, preview |-> preview]

\* a Message of the s-th send
ChatMessage(s, i, sessionId, role, kind) ==
    [id |-> MsgId(s, i), sessionId |-> sessionId, role |-> role, kind |-> kind]

\* the order of the keys of an object store
KeyLE(a, b) == a.d < b.d \/ (a.d = b.d /\ a.i <= b.i)

RECURSIVE InKeyOrder(_)
InKeyOrder(store) ==
    IF store = {} THEN <<>>
    ELSE LET first == CHOOSE x \in store : \A y \in store : KeyLE(x.id, y.id)
         IN  <<first>> \o InKeyOrder(store \ {first})

\* db.getAllFromIndex('messages', 'by-session', sessionId)
getMessagesForSession(store, sessionId) ==
    InKeyOrder({m \in store : m.sessionId = sessionId})

\* the cursor over the by-session index deletes every message it meets
DbDeleteBySession(store, sessionId) == {m \in store : m.sessionId # sessionId}

\* prev.filter(s => s.id !== id)
WithoutSession(list, id) ==
    PickIdx(list, {i \in DOMAIN list : list[i].id # id}, 1)

\* prev.map(x => x.id === updated.id ? updated : x)
ReplaceSession(list, updated) ==
    [i \in DOMAIN list |-> IF list[i].id = updated.id THEN updated ELSE list[i]]

InList(list, id) == \E i \in DOMAIN list : list[i].id = id

\* sessions.find(s => s.id === id), for an id that is in the list
FindSession(list, id) ==
    list[CHOOSE i \in DOMAIN list :
            /\ list[i].id = id
            /\ \A h \in 1..(i - 1) : list[h].id # id]

NoSessionRecord == Session(NoSession, "none", 0)

\* handleSendMessage from the user message on, up to the await inside the
\* try block: the message is appended and handed to dbService.addMessage
\* (the put is issued at once and not awaited), the flag is raised and the
\* try block entered
PostUserMessage(s, sessionId) ==
    LET userMsg == ChatMessage(s, 1, sessionId, "user", "text")
    IN  /\ messages' = Append(messages, userMsg)
        /\ dbMessages' = DbPut(dbMessages, userMsg)
        /\ isLoading' = TRUE
        /\ error' = "none"

\* the user submits a text (ChatView.handleSubmit refuses while isLoading):
\* handleSendMessage runs up to its first await, which is createSession
\* when no session is displayed, updateSession when the displayed session is
\* in the list, and the retrieval otherwise
ChatSendStart ==
    /\ UNCHANGED faults
    /\ ~isLoading
    /\ Len(chatSends) < MaxSends
    /\ LET s == Len(chatSends) + 1
       IN  IF currentSessionId = NoSession
           THEN /\ chatSends' = Append(chatSends,
                      [pc |-> "createSession", sessionId |-> SessionId(s),
                       isNew |-> TRUE,
                       session |-> Session(SessionId(s), "temporary", s),
                       title |-> "none"])
                /\ UNCHANGED <<messages, dbMessages, isLoading, error>>
           ELSE IF InList(sessions, currentSessionId)
           THEN /\ chatSends' = Append(chatSends,
                      [pc |-> "updateSession", sessionId |-> currentSessionId,
                       isNew |-> FALSE,
                       session |->
                           [FindSession(sessions, currentSessionId)
                               EXCEPT !.preview = s],
                       title |-> "none"])
                /\ UNCHANGED <<messages, dbMessages, isLoading, error>>
           ELSE /\ chatSends' = Append(chatSends,
                      [pc |-> "answering", sessionId |-> currentSessionId,
                       isNew |-> FALSE, session |-> NoSessionRecord,
                       title |-> "none"])
                /\ PostUserMessage(s, currentSessionId)
    /\ UNCHANGED <<sessions, currentSessionId, dbSessions, deletions, load>>
    /\ UNCHANGED knowledgeVars

\* await dbService.createSession / updateSession settles.  A rejection
\* leaves handleSendMessage before its try block; otherwise the session is
\* put in the store, set first in the list (and displayed, if new), and the
\* handler goes on to the retrieval
ChatSessionSettles(s, ok) ==
    /\ Settles(ok)
    /\ chatSends[s].pc \in {"createSession", "updateSession"}
    /\ IF ok
       THEN /\ dbSessions' = DbPut(dbSessions, chatSends[s].session)
            /\ sessions' = <<chatSends[s].session>>
                             \o WithoutSession(sessions, chatSends[s].sessionId)
            /\ currentSessionId' = IF chatSends[s].isNew
                                   THEN chatSends[s].sessionId
                                   ELSE currentSessionId
            /\ PostUserMessage(s, chatSends[s].sessionId)
            /\ chatSends' = [chatSends EXCEPT ![s].pc = "answering"]
       ELSE /\ chatSends' = [chatSends EXCEPT ![s].pc = "done"]
            /\ UNCHANGED <<dbSessions, sessions, currentSessionId, messages,
                           dbMessages, isLoading, error>>
    /\ UNCHANGED <<deletions, load>>
    /\ UNCHANGED knowledgeVars

\* retrieveContext and generateCompletion have resolved, or one of them has
\* rejected: the assistant message or the error message is appended and
\* handed to dbService.addMessage; after the first exchange of a new session
\* generateChatTitle is called and not awaited; finally the flag is lowered
ChatAnswerSettles(s, ok) ==
    /\ Settles(ok)
    /\ chatSends[s].pc = "answering"
    /\ LET msg == ChatMessage(s, 2, chatSends[s].sessionId, "assistant",
                              IF ok THEN "text" ELSE "error")
       IN  /\ messages' = Append(messages, msg)
           /\ dbMessages' = DbPut(dbMessages, msg)
    /\ error' = IF ok THEN error ELSE "send"
    /\ isLoading' = FALSE
    /\ chatSends' = [chatSends EXCEPT
                        ![s].pc = "done",
                        ![s].title = IF ok /\ chatSends[s].isNew
                                     THEN "generating" ELSE "none"]
    /\ UNCHANGED <<sessions, currentSessionId, dbSessions, deletions, load>>
    /\ UNCHANGED knowledgeVars

\* generateChatTitle resolves (it catches its own failure): the callback
\* runs up to await dbService.getAllSessions()
TitleGenerated(s) ==
    /\ UNCHANGED faults
    /\ chatSends[s].title = "generating"
    /\ chatSends' = [chatSends EXCEPT ![s].title = "reading"]
    /\ UNCHANGED <<messages, isLoading, error, sessions, currentSessionId,
                   dbSessions, dbMessages, deletions, load>>
    /\ UNCHANGED knowledgeVars

\* getAllSessions settles: the session is looked up in what the store holds
\* and, if it is there, updateSession is called with the new title
TitleRead(s) ==
    /\ UNCHANGED faults
    /\ chatSends[s].title = "reading"
    /\ IF \E x \in dbSessions : x.id = chatSends[s].sessionId
       THEN LET currentS == CHOOSE x \in dbSessions :
                                x.id = chatSends[s].sessionId
            IN  chatSends' = [chatSends EXCEPT
                                 ![s].title = "updating",
                                 ![s].session =
                                     [currentS EXCEPT !.title = "generated"]]
       ELSE chatSends' = [chatSends EXCEPT ![s].title = "done"]
    /\ UNCHANGED <<messages, isLoading, error, sessions, currentSessionId,
                   dbSessions, dbMessages, deletions, load>>
    /\ UNCHANGED knowledgeVars

\* await dbService.updateSession(updated) settles: the record is put in the
\* store and replaced in the list
TitleUpdated(s) ==
    /\ UNCHANGED faults
    /\ chatSends[s].title = "updating"
    /\ dbSessions' = DbPut(dbSessions, chatSends[s].session)
    /\ sessions' = ReplaceSession(sessions, chatSends[s].session)
    /\ chatSends' = [chatSends EXCEPT ![s].title = "done"]
    /\ UNCHANGED <<messages, isLoading, error, currentSessionId, dbMessages,
                   deletions, load>>
    /\ UNCHANGED knowledgeVars

\* the user clicks the bin of a session of the list and confirms: onConfirm
\* closes over the session displayed at the click and runs up to
\* dbService.deleteSession's await db.delete('sessions', id)
DeleteConfirm(id) ==
    /\ UNCHANGED faults
    /\ InList(sessions, id)
    /\ Len(deletions) < MaxDeletes
    /\ deletions' = Append(deletions,
                           [pc |-> "delSession", id |-> id,
                            capCurrent |-> currentSessionId])
    /\ UNCHANGED <<messages, isLoading, error, sessions, currentSessionId,
                   dbSessions, dbMessages, chatSends, load>>
    /\ UNCHANGED knowledgeVars

\* catch of onConfirm
CatchDelete(d) ==
    /\ deletions' = [deletions EXCEPT ![d].pc = "failed"]
    /\ error' = "deleteSession"

\* dbService.deleteSession: await db.delete('sessions', id) settles
DeleteSessionSettles(d, ok) ==
    /\ Settles(ok)
    /\ deletions[d].pc = "delSession"
    /\ IF ok
       THEN /\ dbSessions' = DbDelete(dbSessions, deletions[d].id)
            /\ deletions' = [deletions EXCEPT ![d].pc = "delMessages"]
            /\ UNCHANGED error
       ELSE /\ CatchDelete(d)
            /\ UNCHANGED dbSessions
    /\ UNCHANGED <<messages, isLoading, sessions, currentSessionId, dbMessages,
                   chatSends, load>>
    /\ UNCHANGED knowledgeVars

\* dbService.deleteSession: the cursor has deleted the messages of the
\* session and the transaction is done; the session leaves the list, and
\* handleNewChat runs if it was the one displayed at the click
DeleteMessagesSettles(d, ok) ==
    /\ Settles(ok)
    /\ deletions[d].pc = "delMessages"
    /\ IF ok
       THEN /\ dbMessages' = DbDeleteBySession(dbMessages, deletions[d].id)
            /\ sessions' = WithoutSession(sessions, deletions[d].id)
            /\ IF deletions[d].capCurrent = deletions[d].id
               THEN currentSessionId' = NoSession /\ messages' = <<>>
               ELSE UNCHANGED <<currentSessionId, messages>>
            /\ deletions' = [deletions EXCEPT ![d].pc = "done"]
            /\ UNCHANGED error
       ELSE /\ CatchDelete(d)
            /\ UNCHANGED <<dbMessages, sessions, currentSessionId, messages>>
    /\ UNCHANGED <<isLoading, dbSessions, chatSends, load>>
    /\ UNCHANGED knowledgeVars

\* the user clicks a session of the list: loadSession runs up to
\* await dbService.getMessagesForSession(sessionId)
LoadStart(id) ==
    /\ UNCHANGED faults
    /\ load.pc = "none"
    /\ InList(sessions, id)
    /\ load' = [pc |-> "reading", id |-> id]
    /\ UNCHANGED <<messages, isLoading, error, sessions, currentSessionId,
                   dbSessions, dbMessages, chatSends, deletions>>
    /\ UNCHANGED knowledgeVars

\* getMessagesForSession settles: the session is displayed with the messages
\* read; a rejection is logged and changes nothing
LoadSettles(ok) ==
    /\ Settles(ok)
    /\ load.pc = "reading"
    /\ IF ok
       THEN /\ currentSessionId' = load.id
            /\ messages' = getMessagesForSession(dbMessages, load.id)
       ELSE UNCHANGED <<currentSessionId, messages>>
    /\ load' = NoLoad
    /\ UNCHANGED <<isLoading, error, sessions, dbSessions, dbMessages,
                   chatSends, deletions>>
    /\ UNCHANGED knowledgeVars

\* the user clicks New Chat
handleNewChat ==
    /\ UNCHANGED faults
    /\ currentSessionId' = NoSession
    /\ messages' = <<>>
    /\ UNCHANGED <<isLoading, error, sessions, dbSessions, dbMessages,
                   chatSends, deletions, load>>
    /\ UNCHANGED knowledgeVars

\* a session of an earlier visit, with one exchange, as IndexedDB holds it
PastSession == Session(SessionId(0), "generated", 0)
PastMessages ==
    << ChatMessage(0, 1, SessionId(0), "user", "text"),
       ChatMessage(0, 2, SessionId(0), "assistant", "text") >>

\* the App component after loadData: on an empty database, or on a database
\* with one session, which is then the one displayed
InitChat ==
    /\ rt = RtIdle /\ gb = GbIdle /\ fn = FnIdle
    /\ documents = <<>> /\ chunks = <<>> /\ graphData = EmptyGraph
    /\ dbDocuments = {} /\ dbChunks = {}
    /\ runs = <<>> /\ removal = NoRemoval /\ sends = <<>> /\ deleted = {}
    /\ isLoading = FALSE /\ error = "none" /\ faults = 0
    /\ chatSends = <<>> /\ deletions = <<>> /\ load = NoLoad
    /\ \/ /\ sessions = <<>> /\ dbSessions = {}
          /\ dbMessages = {}
          /\ currentSessionId = NoSession /\ messages = <<>>
       \/ /\ sessions = <<PastSession>> /\ dbSessions = {PastSession}
          /\ dbMessages = Range(PastMessages)
          /\ currentSessionId = SessionId(0) /\ messages = PastMessages

NextChat ==
    \/ ChatSendStart
    \/ \E s \in DOMAIN chatSends, ok \in BOOLEAN : ChatSessionSettles(s, ok)
    \/ \E s \in DOMAIN chatSends, ok \in BOOLEAN : ChatAnswerSettles(s, ok)
    \/ \E s \in DOMAIN chatSends : TitleGenerated(s)
    \/ \E s \in DOMAIN chatSends : TitleRead(s)
    \/ \E s \in DOMAIN chatSends : TitleUpdated(s)
    \/ \E i \in DOMAIN sessions : DeleteConfirm(sessions[i].id)
    \/ \E d \in DOMAIN deletions, ok \in BOOLEAN : DeleteSessionSettles(d, ok)
    \/ \E d \in DOMAIN deletions, ok \in BOOLEAN : DeleteMessagesSettles(d, ok)
    \/ \E i \in DOMAIN sessions : LoadStart(sessions[i].id)
    \/ \E ok \in BOOLEAN : LoadSettles(ok)
    \/ handleNewChat

SpecChat == InitChat /\ [][NextChat]_vars

----------------------------------------------------------------------------
(* Claims about retrieveContext (SpecRetrieve)                             *)

\* the call has an empty query or an empty chunk list
RtEmptyInput == rt.query = <<>> \/ rt.chunks = <<>>

\* the query and the chunk list were not empty, the query was embedded, and
\* retrieveContext returned
RtScored == rt.pc = "returned" /\ ~RtEmptyInput

\* the query vector the provider answered with
RtQueryVec == fetchEmbedding(rt.settings, rt.resp).vec

\* the score of the i-th input chunk against the query vector
RtScore(i) ==
    IF rt.chunks[i].vector.present /\ RtQueryVec.present
    THEN cosineSimilarity(RtQueryVec, rt.chunks[i].vector)
    ELSE ZeroScore

\* the input chunks scoring strictly above 0.25
RtAbove == {i \in DOMAIN rt.chunks : AboveThreshold(RtScore(i))}

\* the score num/den in the exact representation of scores
ScoreOf(num, den) == [n |-> num * Abs(num), d |-> den * den]

\* the chunks of the example: cosines 0.9, 0.5, 0.2, 0.8 and topK = 2
RtIsExample ==
    /\ rt.settings.ragConfig.topK = 2
    /\ Len(rt.chunks) = 4
    /\ [i \in 1..4 |-> rt.chunks[i].vector] =
         <<Vec(<<9, 3, 3, 1>>), Vec(<<1, 1, 1, 1>>), Vec(<<1, 4, 2, 2>>),
           Vec(<<4, 3, 0, 0>>)>>

\* C1: with a non-empty query, a non-empty chunk list and a query embedding
\* that succeeded, retrieveContext returns exactly the topK highest-scoring
\* chunks among those scoring strictly above 0.25: min(topK, number above
\* 0.25) items, each above 0.25, each an input chunk with its own score, no
\* chunk twice, and no omitted chunk above 0.25 scores higher than a returned
\* one; scores [0.9, 0.5, 0.2, 0.8] with topK = 2 give [0.9, 0.8].
C1_TopKAboveThreshold ==
    RtScored =>
        LET R == rt.out.contexts
            Returned_(i) == \E r \in DOMAIN R : R[r].chunkId = rt.chunks[i].id
        IN  /\ Len(R) = Min2(rt.settings.ragConfig.topK, Cardinality(RtAbove))
            /\ \A r \in DOMAIN R : AboveThreshold(R[r].score)
            /\ \A r1, r2 \in DOMAIN R : r1 # r2 => R[r1].chunkId # R[r2].chunkId
            /\ \A r \in DOMAIN R : \E i \in RtAbove :
                  /\ rt.chunks[i].id = R[r].chunkId
                  /\ ScoreEQ(R[r].score, RtScore(i))
            /\ \A i \in RtAbove : ~Returned_(i) =>
                  \A r \in DOMAIN R : ~ScoreGT(RtScore(i), R[r].score)
            /\ RtIsExample =>
                  /\ Len(R) = 2
                  /\ ScoreEQ(R[1].score, ScoreOf(9, 10))
                  /\ ScoreEQ(R[2].score, ScoreOf(8, 10))

\* the example of C1 has been retrieved
C1_Witness == RtScored /\ RtIsExample /\ Len(rt.out.contexts) = 2

C3_EmptyInputReturnsEmpty ==
    (rt.pc \in {"embedding", "returned", "threw"} /\ RtEmptyInput) =>
        /\ rt.pc = "returned"
        /\ rt.out.contexts = <<>>
        /\ rt.out.error = "none"
        /\ rt.embedCalls = 0

\* a call with chunks but an empty query, under a provider whose key is
\* missing and which is unreachable, has returned
C3_Witness ==
    /\ rt.pc = "returned"
    /\ rt.query = <<>>
    /\ Len(rt.chunks) = 1
    /\ rt.settings.embeddingProvider = "openai"
    /\ rt.settings.openaiKey = ""
    /\ rt.resp.kind = "network"

----------------------------------------------------------------------------
(* Claims about the application (Spec)                                     *)

\* the messages appended for the s-th call of handleSendMessage
MessagesOf(s) == {i \in DOMAIN messages : messages[i].send = s}

\* C4: when the embedding of the query fails (the query and the chunk list
\* not empty), retrieveContext fails with the error of the embedding and
\* returns no result in its place; handleSendMessage then ends with that
\* error, appends one assistant error message, and no message of that call
\* records a retrieved context.
C4_FailedRetrievalSurfaces ==
    \A s \in DOMAIN sends :
        sends[s].embed.status = "throw" =>
            /\ sends[s].pc = "done"
            /\ sends[s].outcome = "error"
            /\ sends[s].error = sends[s].embed.error
            /\ sends[s].context = <<>>
            /\ \A i \in MessagesOf(s) :
                  /\ ~messages[i].retrievedContext.present
                  /\ messages[i].kind # "answer"
            /\ Cardinality({i \in MessagesOf(s) :
                              /\ messages[i].role = "assistant"
                              /\ messages[i].kind = "error"}) = 1

\* a question asked over indexed chunks whose query embedding was rejected
C4_Witness ==
    \E s \in DOMAIN sends :
        /\ sends[s].embed.status = "throw"
        /\ sends[s].query # <<>>
        /\ sends[s].capChunks # <<>>
        /\ sends[s].pc = "done"

\* the probe, a chunk embedding, or a dbService call of the run raised
RunRaised(run) ==
    "throw" \in Range(run.results) \/ "throw" \in Range(run.dbLog)

\* the probe or a chunk embedding of the run raised
RunEmbedFailed(run) == "throw" \in Range(run.results)

\* handleAddDocument was entered for this run and has ended
RunEnded(run) == run.pc = "done" /\ run.doc # NoDoc

\* the status of a document changes from indexing to ready or error only
StatusSteps ==
    \A i \in DOMAIN documents, j \in DOMAIN documents' :
        (/\ documents[i].id = documents'[j].id
         /\ documents[i].status # documents'[j].status)
        => /\ documents[i].status = "indexing"
           /\ documents'[j].status \in {"ready", "error"}

\* the document of an ended run is error if the run raised, ready if not
EndedRunsSettled ==
    \A r \in DOMAIN runs :
        RunEnded(runs[r]) =>
            \A i \in DOMAIN documents :
                documents[i].id = runs[r].doc.id =>
                    documents[i].status =
                        IF RunRaised(runs[r]) THEN "error" ELSE "ready"

\* a document in status indexing is the document of a run in flight
IndexingHasRun ==
    \A i \in DOMAIN documents :
        documents[i].status = "indexing" =>
            \E r \in DOMAIN runs :
                InFlight(r) /\ runs[r].doc.id = documents[i].id

\* C5: a document's status changes only from indexing to ready or from
\* indexing to error, ready and error being terminal; when a run of
\* handleAddDocument has ended because the probe, a chunk embedding or a
\* persistence step raised, its document is error, when it has ended without
\* an exception its document is ready, and no document is indexing once its
\* run has ended.
C5_StatusLifecycle ==
    /\ [][StatusSteps]_vars
    /\ [](EndedRunsSettled /\ IndexingHasRun)

\* one run has ended with an exception and its document is error, another
\* has ended without and its document is ready
C5_Witness ==
    \E r1, r2 \in DOMAIN runs, i1, i2 \in DOMAIN documents :
        /\ RunEnded(runs[r1]) /\ RunRaised(runs[r1])
        /\ documents[i1].id = runs[r1].doc.id
        /\ documents[i1].status = "error"
        /\ RunEnded(runs[r2]) /\ ~RunRaised(runs[r2])
        /\ documents[i2].id = runs[r2].doc.id
        /\ documents[i2].status = "ready"

\* no chunk of a run whose embedding failed is in the store, in the chunks
\* retrieval scans, or in the graph
FailedRunHasNoChunks ==
    \A r \in DOMAIN runs :
        RunEmbedFailed(runs[r]) =>
            /\ \A c \in dbChunks : c.docId # runs[r].doc.id
            /\ \A i \in DOMAIN chunks : chunks[i].docId # runs[r].doc.id
            /\ \A n \in DOMAIN graphData.nodes :
                  graphData.nodes[n].id.k = "chk" =>
                      graphData.nodes[n].id.d # runs[r].doc.id.d

\* the step in which an embedding of a run fails changes neither the chunks
\* nor the graph nor the store, and the run takes no step after it
FailedRunChangesNothing ==
    \A r \in DOMAIN runs :
        /\ (r \in DOMAIN runs' /\ RunEmbedFailed(runs'[r])
              /\ ~RunEmbedFailed(runs[r]))
           => UNCHANGED <<chunks, graphData, dbChunks>>
        /\ RunEmbedFailed(runs[r]) =>
              (r \in DOMAIN runs' /\ runs'[r] = runs[r])

\* C6: when an indexing run fails at the probe or at the embedding of a
\* chunk, no chunk produced by the run is written to the persisted chunk
\* store or added to the in-memory chunks, and the run leaves the in-memory
\* chunks and the graph unchanged.
C6_FailedRunLeavesNoChunks ==
    /\ []FailedRunHasNoChunks
    /\ [][FailedRunChangesNothing]_vars

\* a run has failed at its second chunk, the first one embedded, while the
\* chunks of another document are in memory
C6_Witness ==
    \E r \in DOMAIN runs :
        /\ runs[r].results = <<"ok", "ok", "throw">>
        /\ Len(runs[r].newChunks) = 1
        /\ runs[r].pc = "done"
        /\ chunks # <<>>

\* C7: within one run of processDocument the embedding calls are issued in
\* the order probe, chunk 0, chunk 1, ..., one at a time; a call is issued
\* only after every earlier call of the run has succeeded, so no chunk is
\* embedded before the probe has succeeded and no call follows a failed one.
C7_EmbeddingCallOrder ==
    \A r \in DOMAIN runs :
        LET cs == runs[r].calls
            rs == runs[r].results
        IN  /\ Len(rs) <= Len(cs)
            /\ Len(cs) <= Len(rs) + 1
            /\ \A k \in DOMAIN cs :
                  cs[k] = IF k = 1 THEN ProbeCall ELSE ChunkCall(k - 2)
            /\ \A k \in 2..Len(cs) : rs[k - 1] = "ok"

\* a run over two chunks has ended at the failed embedding of chunk 0, the
\* embedding of chunk 1 never issued
C7_Witness ==
    \E r \in DOMAIN runs :
        /\ Len(runs[r].textChunks) = 2
        /\ runs[r].calls = <<ProbeCall, ChunkCall(0)>>
        /\ runs[r].results = <<"ok", "throw">>
        /\ runs[r].pc = "done"

\* C8: when two runs of handleAddDocument for different documents overlap in
\* time and both succeed, and neither document has been deleted, the
\* persisted chunk store and the in-memory chunks each hold every chunk of
\* both documents and the graph holds both documents.
C8_ConcurrentIndexingKeepsBoth ==
    \A r1, r2 \in DOMAIN runs :
        (/\ r1 \in runs[r2].during
         /\ runs[r1].outcome = "ready"
         /\ runs[r2].outcome = "ready"
         /\ runs[r1].doc.id \notin deleted
         /\ runs[r2].doc.id \notin deleted)
        => \A r \in {r1, r2} :
              /\ \A k \in DOMAIN runs[r].newChunks :
                    /\ runs[r].newChunks[k] \in dbChunks
                    /\ runs[r].newChunks[k] \in Range(chunks)
              /\ runs[r].doc.id \in NodeIds(graphData)

\* C9: once a document has been deleted, by handleRemoveDocument or by the
\* delete step of handleUpdateDocument, no chunk with its docId is in the
\* persisted chunk store or in the in-memory chunks, in any later state.
C9_DeletedDocHasNoChunks ==
    \A id \in deleted :
        /\ \A c \in dbChunks : c.docId # id
        /\ \A i \in DOMAIN chunks : chunks[i].docId # id

\* C11: in every state of the application, whatever the interleaving of
\* adding, removing and editing documents, every link of graphData has a
\* source and a target that are ids of nodes of graphData.
C11_GraphDataLinksReferenceNodes ==
    \A l \in DOMAIN graphData.links :
        /\ graphData.links[l].source \in NodeIds(graphData)
        /\ graphData.links[l].target \in NodeIds(graphData)

----------------------------------------------------------------------------
(* Claims about rebuildGraphFromChunks (SpecGraph)                         *)

\* C10: every link of the graph rebuildGraphFromChunks returns has a source
\* and a target that are ids of nodes of that graph, also the contains link
\* of a chunk whose docId is the id of no document given
C10_LinksReferenceNodes ==
    gb.pc = "returned" =>
        \A l \in DOMAIN gb.graph.links :
            /\ gb.graph.links[l].source \in NodeIds(gb.graph)
            /\ gb.graph.links[l].target \in NodeIds(gb.graph)

\* the documents and the chunks given have pairwise distinct ids
GbDistinctIds ==
    /\ \A i, j \in DOMAIN gb.documents :
          i # j => gb.documents[i].id # gb.documents[j].id
    /\ \A i, j \in DOMAIN gb.chunks : i # j => gb.chunks[i].id # gb.chunks[j].id

\* C12: in the graph rebuildGraphFromChunks returns for documents with
\* pairwise distinct ids and chunks with pairwise distinct ids no two nodes
\* share an id; each entity term yields exactly one entity node, however
\* many chunks yield it, and each such chunk has its own mentions link to it.
C12_NodeIdsUnique ==
    (gb.pc = "returned" /\ GbDistinctIds) =>
        LET g == gb.graph
        IN  /\ \A i, j \in DOMAIN g.nodes : i # j => g.nodes[i].id # g.nodes[j].id
            /\ \A c \in DOMAIN gb.chunks :
                  \A e \in Range(extractEntities(gb.chunks[c].text)) :
                      /\ Cardinality({n \in DOMAIN g.nodes :
                                        g.nodes[n] = [id |-> EntId(e),
                                                      type |-> "entity"]}) = 1
                      /\ Cardinality({l \in DOMAIN g.links :
                                        g.links[l] = [source |-> gb.chunks[c].id,
                                                      target |-> EntId(e),
                                                      type |-> "mentions"]}) = 1

\* the graph of two chunks of different documents that yield the same terms
C12_Witness ==
    /\ gb.pc = "returned"
    /\ Len(gb.documents) = 2
    /\ Len(gb.chunks) = 2
    /\ gb.chunks[1].docId = DocId(1)
    /\ gb.chunks[2].docId = DocId(2)
    /\ gb.chunks[1].text = TextAKA
    /\ gb.chunks[2].text = TextAKA
    /\ Cardinality({l \in DOMAIN gb.graph.links :
                      gb.graph.links[l].type = "mentions"}) = 4

----------------------------------------------------------------------------
(* Claims about the roadmap of the graph view (SpecRoadmap)                *)

\* the roadmap of a non-empty query and contexts with distinct chunkIds
\* has been built
RoadmapBuilt ==
    /\ fn.pc = "returned"
    /\ fn.focusQuery # <<>>
    /\ \A i, j \in DOMAIN fn.focusContext :
          i # j => fn.focusContext[i].chunkId # fn.focusContext[j].chunkId

\* how many nodes of g are the node n, how many links of g pass Is
NodeCount(g, n) == Cardinality({i \in DOMAIN g.nodes : g.nodes[i] = n})
NodesOfType(g, type) == {i \in DOMAIN g.nodes : g.nodes[i].type = type}
LinksOfType(g, type) == {l \in DOMAIN g.links : g.links[l].type = type}
LinkCount(g, source, target, type) ==
    Cardinality({l \in LinksOfType(g, type) :
                   g.links[l].source = source /\ g.links[l].target = target})

\* C13: the roadmap of a non-empty query and contexts with distinct chunkIds
\* has exactly one query node; one chunk node per context, with exactly one
\* similar_to link from the query node whose weight is the context's score;
\* one doc node per distinct docId with a contains link from each of its
\* chunk nodes; one entity node per distinct related entity with a mentions
\* link from each chunk listing it; no other node and no other link; node
\* ids are pairwise distinct and every link endpoint is a node.
C13_RoadmapShape ==
    RoadmapBuilt =>
        LET g == fn.out
            C == fn.focusContext
            docIds == {C[c].docId : c \in DOMAIN C}
            ents == UNION {Range(C[c].relatedEntities) : c \in DOMAIN C}
        IN  /\ NodesOfType(g, "query") = {1}
            /\ g.nodes[1].id = QueryId
            /\ \A c \in DOMAIN C :
                  /\ NodeCount(g, [id |-> C[c].chunkId, type |-> "chunk"]) = 1
                  /\ LinkCount(g, QueryId, C[c].chunkId, "similar_to") = 1
                  /\ \A l \in LinksOfType(g, "similar_to") :
                        g.links[l].target = C[c].chunkId =>
                            g.links[l].weight = C[c].score
                  /\ NodeCount(g, [id |-> C[c].docId, type |-> "doc"]) = 1
                  /\ LinkCount(g, C[c].chunkId, C[c].docId, "contains") = 1
                  /\ \A e \in Range(C[c].relatedEntities) :
                        /\ NodeCount(g, [id |-> EntId(e), type |-> "entity"]) = 1
                        /\ LinkCount(g, C[c].chunkId, EntId(e), "mentions") = 1
            /\ Cardinality(NodesOfType(g, "chunk")) = Len(C)
            /\ Cardinality(NodesOfType(g, "doc")) = Cardinality(docIds)
            /\ Cardinality(NodesOfType(g, "entity")) = Cardinality(ents)
            /\ Cardinality(LinksOfType(g, "similar_to")) = Len(C)
            /\ Cardinality(LinksOfType(g, "contains")) = Len(C)
            /\ \A i, j \in DOMAIN g.nodes : i # j => g.nodes[i].id # g.nodes[j].id
            /\ \A l \in DOMAIN g.links :
                  /\ g.links[l].source \in NodeIds(g)
                  /\ g.links[l].target \in NodeIds(g)

\* the roadmap of two contexts of one document that share an entity
C13_Witness ==
    /\ RoadmapBuilt
    /\ Len(fn.focusContext) = 2
    /\ fn.focusContext[1].docId = fn.focusContext[2].docId
    /\ fn.focusContext[1].score # fn.focusContext[2].score
    /\ fn.focusContext[1].relatedEntities = <<TextK>>
    /\ fn.focusContext[2].relatedEntities = <<QueryText, TextK>>
    /\ Len(fn.out.nodes) = 6
    /\ Len(fn.out.links) = 7

----------------------------------------------------------------------------
(* Claims about chunkText (SpecChunk, SpecChunkLive)                       *)

\* chunkText has returned
ChunkReturned == fn.pc = "returned"

\* chunkText was called with size > overlap >= 0 and has returned
ChunkReturnedValid == ChunkReturned /\ fn.size > fn.overlap

\* the reference: the start indices 0, s, 2s, ... (s = size - overlap) up to
\* and including the first start i with i + size >= wordCount
RefStarts(wordCount, size, overlap) ==
    {i \in 0..wordCount :
        /\ i % (size - overlap) = 0
        /\ \A j \in 0..(i - 1) :
              j % (size - overlap) = 0 => j + size < wordCount}

\* the reference: the words i .. i + size - 1, joined with single blanks
RefWindow(words, i, size) ==
    JoinBlank([k \in 1..Min2(size, Len(words) - i) |-> words[i + k]])

\* the reference: the windows of 6 characters or more, in start order
RefChunks(text, size, overlap) ==
    LET words == SplitWS(text, <<>>, FALSE)
        starts == RefStarts(Len(words), size, overlap)
        all == [j \in 1..Len(words) |-> RefWindow(words, j - 1, size)]
    IN  PickIdx(all, {j \in 1..Len(words) :
                        j - 1 \in starts /\ Len(all[j]) >= 6}, 1)

\* the example of the chunker has been run
ChunkExampleRun ==
    /\ ChunkReturned
    /\ fn.text = ExampleText
    /\ fn.size = 4
    /\ fn.overlap = 1

\* C14 as stated: chunkText("a b c d e f", 4, 1) returns the two chunks
\* "a b c d" and "d e f"
C14_ExampleTwoChunks ==
    ChunkExampleRun =>
        fn.chunks = << <<"a", " ", "b", " ", "c", " ", "d">>,
                       <<"d", " ", "e", " ", "f">> >>

\* C14 as amended: chunkText("a b c d e f", 4, 1) examines the windows
\* starting at words 0 and 3 and returns the one chunk "a b c d"; the window
\* "d e f" has 5 characters and is discarded
C14_ExampleOneChunk ==
    ChunkExampleRun =>
        /\ fn.chunks = << <<"a", " ", "b", " ", "c", " ", "d">> >>
        /\ fn.iters = 2
        /\ fn.i = 3
        /\ Window(fn.words, 3, 4) = <<"d", " ", "e", " ", "f">>

\* the example has been run to its end
C14_Witness == ChunkExampleRun /\ fn.iters = 2

\* C15: for size > overlap >= 0, chunkText(text, size, overlap) is the
\* reference: the windows of up to size words starting at 0, s, 2s, ... up to
\* and including the first start i with i + size >= wordCount, each joined
\* with single blanks, without the windows shorter than 6 characters, in
\* increasing start order.
C15_ChunkTextIsReference ==
    ChunkReturnedValid =>
        /\ fn.chunks = RefChunks(fn.text, fn.size, fn.overlap)
        /\ chunkText(fn.text, fn.size, fn.overlap) = fn.chunks

\* overlapping windows, two of them returned and one discarded
C15_Witness ==
    /\ ChunkReturnedValid
    /\ fn.overlap >= 1
    /\ Len(fn.chunks) = 2
    /\ fn.iters = 3

\* word w (0-based) lies in the window that starts at i
InWindow(w, i) == i <= w /\ w < i + fn.size

\* the window that starts at i was returned as a chunk
WindowReturned(i) ==
    \E c \in DOMAIN fn.chunks : fn.chunks[c] = RefWindow(fn.words, i, fn.size)

\* word w is in a returned chunk
WordCovered(w) ==
    \E i \in RefStarts(Len(fn.words), fn.size, fn.overlap) :
        InWindow(w, i) /\ WindowReturned(i)

\* word w lies in a window that is not the last one
InNonFinalWindow(w) ==
    \E i, j \in RefStarts(Len(fn.words), fn.size, fn.overlap) :
        i < j /\ InWindow(w, i)

\* C16 as stated: for size > overlap >= 0 every word that lies in a window
\* other than the last is in a returned chunk; only words that lie in the
\* last window alone can be left out
C16_CoverageExceptTrailing ==
    ChunkReturnedValid =>
        \A w \in 0..(Len(fn.words) - 1) : InNonFinalWindow(w) => WordCovered(w)

\* C16 as amended: for size > overlap >= 0 every word lies in a window, and
\* every window of 6 characters or more is returned, so a word is left out
\* only if every window it lies in is shorter than 6 characters; such a
\* window need not be the last one, but it is for size >= 4
C16_CoverageExceptShortWindows ==
    ChunkReturnedValid =>
        LET starts == RefStarts(Len(fn.words), fn.size, fn.overlap)
        IN  /\ \A w \in 0..(Len(fn.words) - 1) : \E i \in starts : InWindow(w, i)
            /\ \A i \in starts :
                  Len(RefWindow(fn.words, i, fn.size)) >= 6 => WindowReturned(i)
            /\ fn.size >= 4 =>
                  \A w \in 0..(Len(fn.words) - 1) :
                      InNonFinalWindow(w) => WordCovered(w)

\* windows of four words, the last one discarded and a word left out
C16_Witness ==
    /\ ChunkReturnedValid
    /\ fn.size = 4
    /\ fn.overlap = 0
    /\ Len(fn.chunks) = 1
    /\ fn.iters = 2
    /\ \E w \in 0..(Len(fn.words) - 1) : ~WordCovered(w)

\* C17: when chunkOverlap >= chunkSize the indexing is rejected before the
\* chunker is called; chunkText is never run with a zero or negative stride
C17_BadChunkParamsRejected ==
    (fn.op = "chunkText" /\ fn.overlap >= fn.size) => fn.pc = "called"

\* ceil(a / b) for b > 0
CeilDiv(a, b) == (a + b - 1) \div b

\* an iteration that stays in the loop moves the start index up
StartIncreases ==
    (fn.op = "chunkText" /\ fn.size > fn.overlap
       /\ fn.pc = "loop" /\ fn'.pc = "loop") => fn'.i > fn.i

\* the loop has not gone past the first window with i + size >= wordCount,
\* and has examined at most ceil(wordCount / (size - overlap)) windows
WithinWindows ==
    (fn.op = "chunkText" /\ fn.size > fn.overlap /\ fn.pc # "called") =>
        /\ fn.iters <= CeilDiv(Len(fn.words), fn.size - fn.overlap)
        /\ fn.pc = "loop" =>
              \/ fn.i = 0
              \/ (fn.i - (fn.size - fn.overlap)) + fn.size < Len(fn.words)

\* C18: chunkText terminates for every text whenever size > overlap >= 0:
\* the start index strictly increases on each iteration, the loop ends at
\* the latest at the first window with i + size >= wordCount, and at most
\* ceil(wordCount / (size - overlap)) windows are examined.
C18_ChunkTextTerminates ==
    /\ [][StartIncreases]_vars
    /\ []WithinWindows
    /\ <>(fn.size > fn.overlap => fn.pc = "returned")

\* a call with stride 1 over six words or more has returned
C18_Witness ==
    /\ ChunkReturnedValid
    /\ fn.size - fn.overlap = 1
    /\ Len(fn.words) >= 6
    /\ fn.iters >= 3

----------------------------------------------------------------------------
(* Claims about tokenize and extractEntities (SpecTokens)                  *)

\* the pieces of the text before the filters: lowered, punctuation and runs
\* of white space turned into single blanks, split at the blanks
TokenPieces(text) ==
    IF text = <<>> THEN <<>>
    ELSE SplitBlank(CollapseWS(ReplacePunct(
             [i \in DOMAIN text |-> LowerChar(text[i])]), FALSE), <<>>)

\* the token is made of digits only
PurelyNumeric(t) == t # <<>> /\ \A i \in DOMAIN t : t[i] \in Digits

\* C19: tokenize returns exactly the pieces of the lowered text that are
\* longer than 2 characters, are not made of digits only and are not stop
\* words, in their original order; no token made only of digits, such as
\* "000" or "123", is returned; the empty text gives the empty sequence.
C19_TokenizeFilters ==
    (fn.op = "tokenize" /\ fn.pc = "returned") =>
        LET pieces == TokenPieces(fn.text)
        IN  /\ fn.out = PickIdx(pieces,
                          {i \in DOMAIN pieces :
                              /\ Len(pieces[i]) > 2
                              /\ ~PurelyNumeric(pieces[i])
                              /\ pieces[i] \notin PERSIAN_STOP_WORDS}, 1)
            /\ \A i \in DOMAIN fn.out : ~PurelyNumeric(fn.out[i])

\* C20: extractEntities(text) returns the 5 most frequent distinct tokens
\* of tokenize(text) (all of them if there are fewer), ordered by
\* non-increasing frequency with ties in order of first occurrence; no token
\* left out is more frequent than a returned one; and the graph of the
\* corpus, the relatedEntities of retrieval and the roadmap drawn from them
\* derive the same entity ids for the same chunk text.
C20_TopEntities ==
    (fn.op = "extractEntities" /\ fn.pc = "returned") =>
        LET E == fn.out
            T == tokenize(fn.text)
            F(t) == Cardinality({i \in DOMAIN T : T[i] = t})
            First(t) == CHOOSE i \in DOMAIN T :
                            T[i] = t /\ \A j \in 1..(i - 1) : T[j] # t
            EntityIds(g) == {g.nodes[n].id : n \in NodesOfType(g, "entity")}
        IN  /\ Len(E) = Min2(5, Cardinality(Range(T)))
            /\ Range(E) \subseteq Range(T)
            /\ \A i, j \in DOMAIN E : i # j => E[i] # E[j]
            /\ \A i, j \in DOMAIN E :
                  i < j => \/ F(E[i]) > F(E[j])
                           \/ F(E[i]) = F(E[j]) /\ First(E[i]) < First(E[j])
            /\ \A t \in Range(T) \ Range(E) : \A i \in DOMAIN E : F(t) <= F(E[i])
            /\ Len(fn.contexts) = 1
            /\ fn.contexts[1].relatedEntities = E
            /\ EntityIds(fn.graph) = {EntId(e) : e \in Range(E)}
            /\ EntityIds(fn.roadmap) = EntityIds(fn.graph)

\* six distinct tokens, the last one twice: it comes first, the fifth is
\* left out
C20_Witness ==
    /\ fn.op = "extractEntities"
    /\ fn.pc = "returned"
    /\ Cardinality(Range(tokenize(fn.text))) = 6
    /\ Len(fn.out) = 5
    /\ fn.out[1] = SixTokens[6]
    /\ SixTokens[5] \notin Range(fn.out)

----------------------------------------------------------------------------
(* Claims about vectors that cannot be scored (SpecRetrieve)               *)

\* the embedding of the query was returned, so the chunks were scored
RtEmbedded ==
    /\ rt.pc \in {"returned", "threw"}
    /\ ~RtEmptyInput
    /\ fetchEmbedding(rt.settings, rt.resp).status = "ok"

\* the sum of the squares of the components of v
SquaredLength(v) == SumTo([i \in DOMAIN v |-> v[i] * v[i]], Len(v))

\* the chunk vector can be compared with the query vector: both are there,
\* of one length, and neither has magnitude zero
Scorable(vector, queryVec) ==
    /\ vector.present /\ queryVec.present
    /\ Len(vector.v) = Len(queryVec.v)
    /\ SquaredLength(vector.v) # 0
    /\ SquaredLength(queryVec.v) # 0

\* C21: scoring never raises: once the query embedding is returned,
\* retrieveContext returns; a chunk that has no vector, or a vector of
\* another length than the query vector, or a vector of magnitude zero (or
\* compared with a query vector of magnitude zero) scores 0 and is in no
\* returned context, whatever well-formed chunks stand next to it
C21_UnscorableChunksScoreZero ==
    RtEmbedded =>
        /\ rt.pc = "returned"
        /\ rt.out.error = "none"
        /\ \A i \in DOMAIN rt.chunks :
              ~Scorable(rt.chunks[i].vector, RtQueryVec) =>
                  /\ ScoreChunks(rt.chunks, RtQueryVec)[i].score = ZeroScore
                  /\ \A r \in DOMAIN rt.out.contexts :
                        rt.out.contexts[r].chunkId # rt.chunks[i].id

\* a chunk without a vector, one with a shorter vector and a well-formed
\* one were scored together, and only the well-formed one was returned
C21_Witness ==
    /\ RtEmbedded
    /\ Len(rt.out.contexts) = 1
    /\ \E i, j \in DOMAIN rt.chunks :
          /\ ~rt.chunks[i].vector.present
          /\ rt.chunks[j].vector.present
          /\ Len(rt.chunks[j].vector.v) \notin {0, Len(RtQueryVec.v)}

\* a chunk with a vector was scored against a query vector of magnitude
\* zero, and nothing was returned
C21_WitnessZeroQuery ==
    /\ RtEmbedded
    /\ RtQueryVec.present
    /\ Len(RtQueryVec.v) = 4
    /\ SquaredLength(RtQueryVec.v) = 0
    /\ \E i \in DOMAIN rt.chunks : Scorable(rt.chunks[i].vector, Vec(QueryVector))
    /\ rt.out.contexts = <<>>

----------------------------------------------------------------------------
(* Claims about the embedding provider (SpecRetrieve, SpecRetrieveLive)    *)

\* fetchEmbedding was called for the query and the provider answered with a
\* success status and a body that lacks the embedding
RtShapelessAnswer ==
    /\ rt.pc \in {"returned", "threw"}
    /\ rt.embedCalls = 1
    /\ rt.resp.kind \in {"noEmbedding", "noData"}

\* C22 as stated: for every provider, a success-status response without an
\* embedding in the expected shape makes the embedding call fail; an absent
\* vector is never returned as a success
C22_ShapelessAnswerFails ==
    RtShapelessAnswer =>
        /\ fetchEmbedding(rt.settings, rt.resp).status = "throw"
        /\ rt.pc = "threw"

\* C23 as stated: every provider call is bounded, for every provider: a
\* call of fetchEmbedding that has been made eventually returns or fails,
\* also when the provider never responds
C23_EmbeddingCallEnds ==
    (rt.pc = "embedding") ~> (rt.pc \in {"returned", "threw"})

----------------------------------------------------------------------------
(* Claims about the provenance of a result (SpecRetrieve)                  *)

\* the r-th returned context carries the id, document id and text of the
\* i-th input chunk
ContextOfChunk(r, i) ==
    /\ rt.out.contexts[r].chunkId = rt.chunks[i].id
    /\ rt.out.contexts[r].docId = rt.chunks[i].docId
    /\ rt.out.contexts[r].content = rt.chunks[i].text

\* the title of the r-th returned context is the title of an input document
\* with the context's document id, or the label of an unknown document when
\* the list holds no such document
ContextTitled(r) ==
    LET c == rt.out.contexts[r]
        owners == {j \in DOMAIN rt.documents : rt.documents[j].id = c.docId}
    IN  IF owners = {} THEN c.docTitle = UNKNOWN_DOC
        ELSE \E j \in owners : c.docTitle = rt.documents[j].title

\* a step of retrieveContext leaves the chunk list and the document list it
\* was given, and those of the application, as they are
RetrieveFrame ==
    /\ rt'.chunks = rt.chunks
    /\ rt'.documents = rt.documents
    /\ UNCHANGED <<chunks, documents>>

\* C25: every returned context has the chunkId, docId and content of one
\* input chunk, and as docTitle the title of the input document with that id
\* or the unknown-document label when there is none; retrieveContext changes
\* neither the chunk list nor the document list
C25_ContextProvenance ==
    /\ [](RtScored =>
            \A r \in DOMAIN rt.out.contexts :
                /\ \E i \in DOMAIN rt.chunks : ContextOfChunk(r, i)
                /\ ContextTitled(r))
    /\ [][RetrieveFrame]_vars

\* two contexts were returned, one of a listed document under its title and
\* one of a document that is not in the list
C25_Witness ==
    /\ RtScored
    /\ Len(rt.out.contexts) = 2
    /\ \E r \in DOMAIN rt.out.contexts :
          /\ rt.out.contexts[r].docTitle = "title"
          /\ \E j \in DOMAIN rt.documents :
                rt.documents[j].id = rt.out.contexts[r].docId
    /\ \E r \in DOMAIN rt.out.contexts :
          /\ rt.out.contexts[r].docTitle = UNKNOWN_DOC
          /\ \A j \in DOMAIN rt.documents :
                rt.documents[j].id # rt.out.contexts[r].docId

----------------------------------------------------------------------------
(* Claims about the persisted documents and the loading flag (Spec)        *)

\* a record of the document with this id is in the persisted store
Persisted(id) == \E d \in dbDocuments : d.id = id

\* C27 as stated: every persisted document record has status ready, and a
\* document whose in-memory status is indexing or error is never in the
\* persisted store, also when addChunks fails after the record was written
C27_PersistedDocsAreReady ==
    /\ \A d \in dbDocuments : d.status = "ready"
    /\ \A i \in DOMAIN documents :
          documents[i].status \in {"indexing", "error"} =>
              ~Persisted(documents[i].id)

\* the edit r has ended after its deletion step went through
EditEnded(r) ==
    /\ runs[r].kind = "update"
    /\ runs[r].pc = "done"
    /\ runs[r].outcome \in {"ready", "error"}

\* the version that edit r replaces was ready when the edit began, and the
\* user has not removed it since
OldVersionKept(r) ==
    /\ \E j \in DOMAIN runs[r].capDocuments :
          /\ runs[r].capDocuments[j].id = runs[r].oldId
          /\ runs[r].capDocuments[j].status = "ready"
    /\ \E i \in DOMAIN documents : documents[i].id = runs[r].oldId
    /\ removal.id # runs[r].oldId

\* C28 as stated: when the re-indexing step of an edit fails, the previous
\* version and its chunks are still in the persisted store; when it
\* succeeds, the new version alone is in the in-memory document list and in
\* the persisted store
C28_EditLosesNoDocument ==
    \A r \in DOMAIN runs : EditEnded(r) =>
        /\ (runs[r].outcome = "error" /\ OldVersionKept(r)) =>
              /\ Persisted(runs[r].oldId)
              /\ \E c \in dbChunks : c.docId = runs[r].oldId
        /\ runs[r].outcome = "ready" =>
              /\ Persisted(runs[r].doc.id)
              /\ ~Persisted(runs[r].oldId)
              /\ \E i \in DOMAIN documents : documents[i].id = runs[r].doc.id
              /\ \A i \in DOMAIN documents : documents[i].id # runs[r].oldId

\* C29 as stated: isLoading is true in every state in which a send or an
\* indexing run is in flight, and at most one send is in flight
C29_LoadingWhileInFlight ==
    /\ ((\E r \in DOMAIN runs : runs[r].pc # "done")
        \/ (\E s \in DOMAIN sends : sends[s].pc # "done")) => isLoading
    /\ Cardinality({s \in DOMAIN sends : sends[s].pc # "done"}) <= 1

----------------------------------------------------------------------------
(* Claims about the chat sessions (SpecChat)                               *)

\* the ids of the sessions whose dbService.deleteSession has completed
DeletedSessions ==
    {deletions[d].id : d \in {x \in DOMAIN deletions : deletions[x].pc = "done"}}

\* C24 as stated: the messages of a session are deleted with it: once
\* deleteSession has completed, no message with that sessionId is in the
\* persisted message store in any later state, also when a send for that
\* session was in flight and persists its message afterwards
C24_NoMessagesOfDeletedSession ==
    \A m \in dbMessages : m.sessionId \notin DeletedSessions

\* C26 as stated: every message of the in-memory message list has the id of
\* the session displayed as its sessionId, also when the user switches the
\* session, starts a new chat or deletes the session while a send is in
\* flight
C26_MessagesOfCurrentSession ==
    \A i \in DOMAIN messages : messages[i].sessionId = currentSessionId

\* the records of the session id in the store and in the list
StoredAs(store, id) == {x \in store : x.id = id}
ListedAs(list, id) == {list[i] : i \in {j \in DOMAIN list : list[j].id = id}}

\* a step that neither puts a record of a deleted session in the persisted
\* session store nor sets one in the in-memory session list
NoWriteToDeleted ==
    \A id \in DeletedSessions :
        /\ StoredAs(dbSessions', id) \subseteq StoredAs(dbSessions, id)
        /\ ListedAs(sessions', id) \subseteq ListedAs(sessions, id)

\* C30 as stated: once deleteSession has completed for a session id, no
\* later step writes a record of that id to the persisted session store or
\* adds one to the in-memory session list, the title callback included
C30_DeletedSessionStaysDeleted == [][NoWriteToDeleted]_vars

====
